---- MODULE Spec2Model ----
(***************************************************************************)
(* Model of the Solana trading bot: SolanaBot (timer-driven cycles),       *)
(* TradingStrategy (position ledger and trade statistics) and RiskManager  *)
(* (risk gate).                                                            *)
(*                                                                         *)
(* Execution model.  The program runs on a single JavaScript thread: code  *)
(* runs to completion between two awaits of external I/O (price fetch,     *)
(* balance query, quote, swap).  One action of the model is one such       *)
(* run-to-completion segment.                                              *)
(*                                                                         *)
(* Numbers.  Money is counted in cents of USDC, token amounts in lots,     *)
(* prices in cents per lot.  Percentages of the strategy (takeProfit,      *)
(* stopLoss) are kept in tenths of a percent, and the target and stop      *)
(* prices of a position are kept multiplied by 1000, so that Big's exact   *)
(* products price * (1 +- pct/100) stay integers.  Quotients that the code *)
(* only compares with a threshold are cross-multiplied.  Time is           *)
(* Date.now() in milliseconds.                                             *)
(***************************************************************************)
EXTENDS Integers, Sequences, FiniteSets, TLC

\* ---------------------------------------------------------------- bounds
MaxInFlight == 2      \* cycle instances that may be awaiting at once
MaxCycles == 3        \* cycles started in one run
MaxObjs == 2          \* positions created in one run
MaxTicks == 1         \* clock advances in one run (bot specification)
MaxTimers == 2        \* interval timers created in one run
MaxRiskTicks == 4     \* clock advances in one run (risk specification)
MaxRecorded == 3      \* recordTrade calls in one run (risk specification)
MaxFlashInFlight == 2 \* flash-loan cycles that may be awaiting at once
MaxTradingInFlight == 2 \* trading cycles of SelfFundingBot awaiting at once
MaxFundCycles == 4    \* cycles SelfFundingBot starts in one run
MaxFeed == 36         \* prices the price API serves in one run
MaxFree == 3          \* length of the price series that are not scripted
MaxCandles == 50      \* candles of the longest series of a backtest
MaxResponses == 3     \* responses of the price API in one run (fetch)
MaxWindow == 6        \* prices of the longest window an indicator is called on

\* ------------------------------------------------------ program constants
HourMs == 3600000
DayMs == 86400000
TrailingGainPerMille == 3
MaxImpactPerMille == 5

\* ------------------------------------------------------------ input sets
Tokens == {"SOL", "JUP"}
NoPrice == 0
PricesOf(tk) == IF tk = "SOL" THEN {2000, 2007, 2009, 2010} ELSE {100}
TimeStep == HourMs \div 2
StartTime == DayMs + TimeStep
StartTimes == {DayMs - TimeStep, StartTime}
Balances == {500, 5000, 10000}
BuyOutputs == {2}
SellDeltas == {-100, 100}
Pnls == {-300, 200}
ImpactsPerMille == {5, 8}
Avails == {400, 9000}
NoQuote == [ok |-> FALSE, impact |-> 0]
BuyQuotes == {NoQuote} \cup {[ok |-> TRUE, impact |-> i] : i \in ImpactsPerMille}
SellQuotes == {NoQuote, [ok |-> TRUE, impact |-> 0]}
NoResult == [ok |-> FALSE, inputAmount |-> 0, outputAmount |-> 0]
BuyResults(amount) ==
    {NoResult} \cup {[ok |-> TRUE, inputAmount |-> amount, outputAmount |-> out]
                        : out \in BuyOutputs}
SellResults(pos) ==
    {NoResult} \cup {[ok |-> TRUE, inputAmount |-> pos.entryAmount,
                      outputAmount |-> pos.usdcSpent + d] : d \in SellDeltas}
AllPrices == UNION {PricesOf(tk) : tk \in Tokens}
PriceUpdates ==
    {f \in [Tokens -> AllPrices \cup {NoPrice}] :
        \A tk \in Tokens : f[tk] \in PricesOf(tk) \cup {NoPrice}}

VARIABLES
    now,              \* Date.now()
    \* ---- SolanaBot
    config, isRunning, intervalId, timers, cycleCount, thr,
    \* ---- TradingStrategy
    positions, objs, closedPositions, stats,
    maxPositions, positionSizePercent, minTradeSize,
    takeProfitPercent, stopLossPercent,
    \* ---- MarketDataService
    lastPrices,
    \* ---- RiskManager
    limits, tradeTimestamps, dailyPnl, dailyStartTime, lastLossTime, isPaused,
    \* ---- history (not program state)
    ticks, lastStatus, recorded, lastLossClose, lastCycle, lastOp,
    \* ---- SelfFundingBot: its fields, its live interval timers, its calls
    \* parked at an await, and the history of its cycles
    sfBot, sfTimers, sfCalls, sfHist,
    \* ---- MarketDataService: the price windows; the price series its API
    \* will serve and the observations made so far (not program state); the
    \* signal returned last
    priceHistories, feed, observed, lastSignal,
    \* ---- Backtester: its candles and the return of runBacktest
    candles, btResult,
    \* ---- the process (main)
    main, sfBacktest

botVars == <<config, isRunning, intervalId, timers, cycleCount, thr>>
ledgerVars == <<positions, objs, closedPositions, stats>>
paramVars == <<maxPositions, positionSizePercent, minTradeSize,
               takeProfitPercent, stopLossPercent>>
riskVars == <<limits, tradeTimestamps, dailyPnl, dailyStartTime, lastLossTime,
              isPaused>>
histVars == <<ticks, recorded, lastLossClose>>
eventVars == <<lastStatus, lastCycle, lastOp>>
fundVars == <<sfBot, sfTimers, sfCalls, sfHist>>
tradeVars == <<now, botVars, ledgerVars, paramVars, lastPrices, riskVars,
               histVars, eventVars>>
marketVars == <<priceHistories, feed, observed, lastSignal>>
backtestVars == <<candles, btResult, sfBacktest>>
sideVars == <<marketVars, backtestVars, main>>
vars == <<tradeVars, fundVars, sideVars>>

\* ---------------------------------------------------------------- helpers
RECURSIVE FilterSeq(_, _)
FilterSeq(s, lo) ==
    IF s = <<>> THEN <<>>
    ELSE IF Head(s) > lo THEN <<Head(s)>> \o FilterSeq(Tail(s), lo)
         ELSE FilterSeq(Tail(s), lo)

Abs(x) == IF x < 0 THEN -x ELSE x

\* new Date().setHours(0, 0, 0, 0): the most recent local midnight
DayStart(t) == (t \div DayMs) * DayMs


\* ------------------------------------------------------------ RiskManager
DefaultLimits ==
    [initialCapital |-> 10000, maxDrawdownPercent |-> 10,
     maxDailyLossPercent |-> 5, maxPositionSizePercent |-> 30,
     minCapitalReserve |-> 1000, maxTradesPerHour |-> 20,
     cooldownAfterLoss |-> 300]

\* limits an administrator may install through setLimits
LimitChoices ==
    {[DefaultLimits EXCEPT !.initialCapital = ic, !.maxTradesPerHour = 2]
        : ic \in {0, 10000}}

NoStatus == [kind |-> "none"]

\* checkDailyReset: the accumulator and its boundary after the call
DailyResetDue(start, t) == start < DayStart(t)
ResetDailyPnl(pnl, start, t) == IF DailyResetDue(start, t) THEN 0 ELSE pnl
ResetDailyStart(start, t) == IF DailyResetDue(start, t) THEN t ELSE start

\* this.tradeTimestamps.filter((t) => t > hourAgo)
TrailingHour(stamps, t) == FilterSeq(stamps, t - HourMs)

\* the six checks of checkRisk, each on the values the code compares
PausedFails(paused) == paused
DrawdownFails_strict(lim, currentCapital) ==
    lim.initialCapital > 0
    /\ (lim.initialCapital - currentCapital) * 100
          > lim.maxDrawdownPercent * lim.initialCapital
DrawdownFails(lim, currentCapital) ==
    LET dd100 == IF lim.initialCapital > 0
                 THEN (lim.initialCapital - currentCapital) * 100
                 ELSE 0
        scale == IF lim.initialCapital > 0 THEN lim.initialCapital ELSE 1
    IN dd100 >= lim.maxDrawdownPercent * scale
DailyLossDivides(lim, pnl) == pnl < 0 /\ lim.initialCapital = 0
DailyLossFails(lim, pnl) ==
    pnl < 0 /\ Abs(pnl) * 100 >= lim.maxDailyLossPercent * lim.initialCapital
ReserveFails(lim, usdcBalance) == usdcBalance < lim.minCapitalReserve
RateFails(lim, tradesThisHour) == tradesThisHour >= lim.maxTradesPerHour
CooldownFails(lim, lastLoss, t) ==
    lastLoss > 0 /\ t - lastLoss < lim.cooldownAfterLoss * 1000

\* checkRisk after the balance has arrived: the status it returns, or the
\* exception Big raises for a division by zero
RiskReason_reserveFirst(lim, paused, usdcBalance, currentCapital, pnl, tradesThisHour, lastLoss, t) ==
    IF PausedFails(paused) THEN "paused"
    ELSE IF ReserveFails(lim, usdcBalance) THEN "reserve"
    ELSE IF DrawdownFails(lim, currentCapital) THEN "drawdown"
    ELSE IF DailyLossDivides(lim, pnl) THEN "threw"
    ELSE IF DailyLossFails(lim, pnl) THEN "dailyLoss"
    ELSE IF RateFails(lim, tradesThisHour) THEN "rate"
    ELSE IF CooldownFails(lim, lastLoss, t) THEN "cooldown"
    ELSE "allowed"

RiskReason(lim, paused, usdcBalance, currentCapital, pnl, tradesThisHour, lastLoss, t) ==
    IF PausedFails(paused) THEN "paused"
    ELSE IF DrawdownFails(lim, currentCapital) THEN "drawdown"
    ELSE IF DailyLossDivides(lim, pnl) THEN "threw"
    ELSE IF DailyLossFails(lim, pnl) THEN "dailyLoss"
    ELSE IF ReserveFails(lim, usdcBalance) THEN "reserve"
    ELSE IF RateFails(lim, tradesThisHour) THEN "rate"
    ELSE IF CooldownFails(lim, lastLoss, t) THEN "cooldown"
    ELSE "allowed"

checkRisk(lim, paused, usdcBalance, positionValue, pnl, tradesThisHour, lastLoss, t) ==
    LET currentCapital == usdcBalance + positionValue
        reason == RiskReason(lim, paused, usdcBalance, currentCapital, pnl,
                             tradesThisHour, lastLoss, t)
    IN [kind |-> IF reason = "threw" THEN "threw" ELSE "status",
        isTradeAllowed |-> (reason = "allowed"),
        reason |-> reason,
        usdcBalance |-> usdcBalance,
        currentCapital |-> currentCapital,
        dailyPnl |-> pnl,
        tradesThisHour |-> tradesThisHour,
        paused |-> paused,
        lastLoss |-> lastLoss,
        limits |-> lim,
        at |-> t,
        nrec |-> Len(recorded),
        lossClose |-> lastLossClose]

\* the whole of RiskManager.checkRisk on the current state
RiskEval(usdcBalance, positionValue) ==
    checkRisk(limits, isPaused, usdcBalance, positionValue,
              ResetDailyPnl(dailyPnl, dailyStartTime, now),
              Len(TrailingHour(tradeTimestamps, now)), lastLossTime, now)

\* the state checkRisk leaves behind (also when the daily-loss check raises)
RiskEffects ==
    /\ dailyPnl' = ResetDailyPnl(dailyPnl, dailyStartTime, now)
    /\ dailyStartTime' = ResetDailyStart(dailyStartTime, now)
    /\ tradeTimestamps' = TrailingHour(tradeTimestamps, now)
    /\ UNCHANGED <<limits, lastLossTime, isPaused>>

InitRisk ==
    /\ limits = DefaultLimits
    /\ tradeTimestamps = <<>>
    /\ dailyPnl = 0
    /\ dailyStartTime = now
    /\ lastLossTime = 0
    /\ isPaused = FALSE


\* -------------------------------------------------------- TradingStrategy
\* objs is the heap of Position objects, positions the Map from id to object
\* in insertion order (slot is the entry's place in that order), and
\* closedPositions the array of references to closed objects.
InitStats ==
    [totalTrades |-> 0, winningTrades |-> 0, losingTrades |-> 0,
     totalProfit |-> 0, totalLoss |-> 0, netPnl |-> 0,
     winRate |-> <<0, 1>>, avgProfit |-> <<0, 1>>, avgLoss |-> <<0, 1>>,
     maxDrawdown |-> 0, volume |-> 0]

InitLedger ==
    /\ positions = <<>>
    /\ objs = <<>>
    /\ closedPositions = <<>>
    /\ stats = InitStats
    /\ maxPositions = 3
    /\ positionSizePercent = [num |-> 3, den |-> 10]
    /\ minTradeSize = 500
    /\ takeProfitPercent = 5
    /\ stopLossPercent = 3

\* the Map iterator: the first entry inserted after the last one visited
NextIndex(ps, cur) ==
    IF \E i \in 1..Len(ps) : ps[i].slot > cur
    THEN CHOOSE i \in 1..Len(ps) :
            /\ ps[i].slot > cur
            /\ \A j \in 1..Len(ps) : ps[j].slot > cur => i <= j
    ELSE 0

IndexOfId(ps, id) ==
    IF \E i \in 1..Len(ps) : ps[i].id = id
    THEN CHOOSE i \in 1..Len(ps) : ps[i].id = id
    ELSE 0

\* positions.set(id, obj)
MapSet(ps, id, obj) ==
    IF IndexOfId(ps, id) # 0
    THEN [ps EXCEPT ![IndexOfId(ps, id)].obj = obj]
    ELSE Append(ps, [slot |-> obj, id |-> id, obj |-> obj])

\* positions.delete(id)
MapDelete(ps, id) ==
    LET k == IndexOfId(ps, id)
    IN IF k = 0 THEN ps
       ELSE [i \in 1..(Len(ps) - 1) |-> IF i < k THEN ps[i] ELSE ps[i + 1]]

OpenObjs(ps) == {ps[i].obj : i \in 1..Len(ps)}

RECURSIVE SumOver(_, _, _)
SumOver(f(_), ps, i) ==
    IF i > Len(ps) THEN 0 ELSE f(ps[i].obj) + SumOver(f, ps, i + 1)

\* getPositionValue: entryAmount * last price over the open positions whose
\* token has a last price
getPositionValue(ps, o, lp) ==
    LET value(k) == IF lp[o[k].token] # NoPrice
                    THEN o[k].entryAmount * lp[o[k].token] ELSE 0
    IN SumOver(value, ps, 1)

\* getAvailableCapital
getAvailableCapital_unfloored(ps, o, st, lim) ==
    LET spent(k) == o[k].usdcSpent
    IN lim.initialCapital + st.netPnl - SumOver(spent, ps, 1)
          - lim.minCapitalReserve
getAvailableCapital(ps, o, st, lim) ==
    LET spent(k) == o[k].usdcSpent
        available == lim.initialCapital + st.netPnl - SumOver(spent, ps, 1)
                        - lim.minCapitalReserve
    IN IF available < 0 THEN 0 ELSE available

\* the ratchet of checkAndManagePositions
TrailingStop(price, sl) == price * (1000 - sl)
RatchetDue(pos, price) ==
    (price - pos.entryPrice) * 1000 > TrailingGainPerMille * pos.entryPrice
Ratchet_unguarded(pos, price, sl) ==
    [pos EXCEPT !.stopLoss = TrailingStop(price, sl)]
Ratchet(pos, price, sl) ==
    IF TrailingStop(price, sl) > pos.stopLoss
    THEN [pos EXCEPT !.stopLoss = TrailingStop(price, sl)]
    ELSE pos

TargetHit_strict(pos, price) == price * 1000 > pos.targetPrice
TargetHit(pos, price) == price * 1000 >= pos.targetPrice
StopHit(pos, price) == price * 1000 <= pos.stopLoss

\* checkAndManagePositions from the entry after cur up to its next await:
\* the heap after the ratchets, and the close it starts (close = 0: the
\* loop has ended)
RECURSIVE ManageScan(_, _, _, _, _)
ManageScan(ps, o, lp, sl, cur) ==
    LET i == NextIndex(ps, cur) IN
    IF i = 0 THEN [objs |-> o, cursor |-> cur, close |-> 0,
                   reason |-> "", price |-> 0]
    ELSE
      LET k == ps[i].obj
          price == lp[o[k].token]
      IN IF price = NoPrice THEN ManageScan(ps, o, lp, sl, ps[i].slot)
         ELSE IF TargetHit(o[k], price)
         THEN [objs |-> o, cursor |-> ps[i].slot, close |-> k,
               reason |-> "TAKE_PROFIT", price |-> price]
         ELSE IF StopHit(o[k], price)
         THEN [objs |-> o, cursor |-> ps[i].slot, close |-> k,
               reason |-> "STOP_LOSS", price |-> price]
         ELSE IF RatchetDue(o[k], price)
         THEN ManageScan(ps, [o EXCEPT ![k] = Ratchet(o[k], price, sl)],
                         lp, sl, ps[i].slot)
         ELSE ManageScan(ps, o, lp, sl, ps[i].slot)

\* closeAllPositions from the entry after cur up to its next await
RECURSIVE CloseAllScan(_, _, _, _)
CloseAllScan(ps, o, lp, cur) ==
    LET i == NextIndex(ps, cur) IN
    IF i = 0 THEN [objs |-> o, cursor |-> cur, close |-> 0,
                   reason |-> "", price |-> 0]
    ELSE IF lp[o[ps[i].obj].token] = NoPrice
         THEN CloseAllScan(ps, o, lp, ps[i].slot)
         ELSE [objs |-> o, cursor |-> ps[i].slot, close |-> ps[i].obj,
               reason |-> "EMERGENCY_CLOSE", price |-> lp[o[ps[i].obj].token]]

\* winRate and maxDrawdown as closePosition recomputes them
WinRate_perLoss(wins, total) ==
    IF total > wins THEN <<wins, total - wins>> ELSE <<0, 1>>
WinRate(wins, total) == IF total > 0 THEN <<wins, total>> ELSE <<0, 1>>
MaxDrawdown_latest(st, net) == IF net < 0 THEN net ELSE 0
MaxDrawdown(st, net) == IF net < st.maxDrawdown THEN net ELSE st.maxDrawdown

\* the statistics after a close with realized pnl and sell proceeds out
CloseStats(st, pnl, out) ==
    LET win == pnl > 0
        total == st.totalTrades + 1
        wins == st.winningTrades + (IF win THEN 1 ELSE 0)
        losses == st.losingTrades + (IF win THEN 0 ELSE 1)
        profit == st.totalProfit + (IF win THEN pnl ELSE 0)
        loss == st.totalLoss + (IF win THEN 0 ELSE Abs(pnl))
        net == profit - loss
    IN [totalTrades |-> total, winningTrades |-> wins, losingTrades |-> losses,
        totalProfit |-> profit, totalLoss |-> loss, netPnl |-> net,
        winRate |-> WinRate(wins, total),
        avgProfit |-> IF wins > 0 THEN <<profit, wins>> ELSE <<0, 1>>,
        avgLoss |-> IF losses > 0 THEN <<loss, losses>> ELSE <<0, 1>>,
        maxDrawdown |-> MaxDrawdown(st, net),
        volume |-> st.volume + out]

\* the Position object closePosition leaves behind
ClosedObj(pos, price, out) ==
    [pos EXCEPT !.status = "CLOSED", !.exitPrice = price,
                !.exitAmount = out, !.pnl = out - pos.usdcSpent]

\* the Position object openLongPosition creates
NewPosition(sig, inAmt, outAmt, tp, sl, t) ==
    [id |-> <<sig.token, t>>, token |-> sig.token,
     entryPrice |-> sig.price, entryAmount |-> outAmt, usdcSpent |-> inAmt,
     targetPrice |-> sig.price * (1000 + tp),
     stopLoss |-> sig.price * (1000 - sl),
     timestamp |-> t, status |-> "OPEN",
     exitPrice |-> 0, exitAmount |-> 0, pnl |-> 0]

\* the outcomes of the awaits of openLongPosition and closePosition
QuoteMissing(q) == ~q.ok
HighPriceImpact(q) == Abs(q.impact) > MaxImpactPerMille
BuySwapFailed_never(res) == FALSE
BuySwapFailed(res) == ~res.ok
SellSwapFailed_never(res) == FALSE
SellSwapFailed(res) == ~res.ok

\* the event closePosition logs last
CloseLog(q, res) ==
    IF QuoteMissing(q) THEN [level |-> "error", event |-> "CloseQuoteFailed"]
    ELSE IF SellSwapFailed(res)
    THEN [level |-> "error", event |-> "CloseSwapFailed"]
    ELSE [level |-> "info", event |-> "PositionClosed"]

\* a return of closePosition(objs[k], price, reason) and a return of
\* executeSignal(sig, avail) from openLongPosition: what the awaits gave and
\* what was returned
CloseOp(k, price, reason, q, res) ==
    [kind |-> "close", obj |-> k, price |-> price, reason |-> reason,
     quote |-> q, result |-> res, log |-> CloseLog(q, res)]
OpenOp(sig, avail, q, res, returned) ==
    [kind |-> "open", signal |-> sig, avail |-> avail, quote |-> q,
     result |-> res, returned |-> returned]

\* the synchronous checks of executeSignal for a BUY signal
PositionSize(avail, psp) == (avail * psp.num) \div psp.den
HasTokenOpen(ps, o, tok) == \E i \in 1..Len(ps) : o[ps[i].obj].token = tok
SignalRejected(ps, o, sig, avail, psp, minSize, maxPos) ==
    \/ PositionSize(avail, psp) < minSize
    \/ Len(ps) >= maxPos
    \/ HasTokenOpen(ps, o, sig.token)

\* the signal loop of runCycle from the head of sigs up to its next await:
\* the signals left when a buy is started, or <<>> with go = FALSE
RECURSIVE SignalLoop(_, _, _, _, _, _, _, _)
SignalLoop(ps, o, sigs, avail, psp, minSize, maxPos, cfgMin) ==
    IF sigs = <<>> \/ avail < cfgMin THEN [go |-> FALSE, sigs |-> <<>>]
    ELSE IF SignalRejected(ps, o, Head(sigs), avail, psp, minSize, maxPos)
    THEN SignalLoop(ps, o, Tail(sigs), avail, psp, minSize, maxPos, cfgMin)
    ELSE [go |-> TRUE, sigs |-> sigs]


\* -------------------------------------------------------------- SolanaBot
\* Process 0 is a call of emergencyStop, processes 1..MaxInFlight are calls
\* of runCycle.  A process is parked at the await its pc names.
Cycles == 1..MaxInFlight
Procs == 0..MaxInFlight

NoConfig == [set |-> FALSE]

\* configurations validateConfig accepts (amounts in cents, percentages of
\* the brackets in tenths of a percent)
Configs ==
    {[set |-> TRUE, initialCapital |-> 10000, maxPositions |-> mp,
      positionSizePercent |-> psp, minTradeSize |-> 500,
      takeProfitPercent |-> 5, stopLossPercent |-> 3,
      maxDrawdownPercent |-> 10, maxDailyLossPercent |-> 5]
        : mp \in {1}, psp \in {[num |-> 30, den |-> 1]}}
    \cup
    {[set |-> TRUE, initialCapital |-> 10000, maxPositions |-> 2,
      positionSizePercent |-> [num |-> 1, den |-> 2], minTradeSize |-> 500,
      takeProfitPercent |-> 5, stopLossPercent |-> 3,
      maxDrawdownPercent |-> 10, maxDailyLossPercent |-> 5]}

IdleThr ==
    [pc |-> "idle", starter |-> FALSE, allowed |-> FALSE, managed |-> FALSE,
     opened |-> FALSE, cursor |-> 0, closing |-> 0, reason |-> "",
     price |-> 0, sigs |-> <<>>, avail |-> 0, amount |-> 0, quote |-> NoQuote,
     atCall |-> {}, direct |-> FALSE]

NoCycle == [kind |-> "none"]
NoOp == [kind |-> "none"]

\* emergencyStop has returned; atCall holds the positions that were open
\* when it was called
EmergencyDone(atCall) == [kind |-> "emergencyDone", atCall |-> atCall]

\* no risk evaluation, no end of cycle and no return of executeSignal or
\* closePosition in this step
Quiet == lastStatus' = NoStatus /\ lastCycle' = NoCycle /\ lastOp' = NoOp

InFlight == {c \in Cycles : thr[c].pc # "idle"}
Opening == {c \in Cycles : thr[c].pc \in {"openQuote", "openSwap"}}

\* if (!riskStatus.isTradeAllowed) { ...manage...; return }
TradingBlocked_never(t) == FALSE
TradingBlocked(t) == ~t.allowed

\* the signals getHighProbabilitySignals may return: BUY signals at the last
\* price of distinct tokens, in any order of confidence
RECURSIVE Distinct(_)
Distinct(q) ==
    IF Len(q) < 2 THEN TRUE
    ELSE Head(q).token # Head(Tail(q)).token /\ Distinct(Tail(q))
SignalChoices ==
    LET one == {[token |-> tk, price |-> lastPrices[tk]] :
                    tk \in {x \in Tokens : lastPrices[x] # NoPrice}}
    IN IF Len(objs) + Cardinality(Opening) >= MaxObjs THEN {<<>>}
       ELSE {<<>>} \cup {<<a>> : a \in one}
              \cup {q \in {<<a, b>> : a \in one, b \in one} : Distinct(q)}

\* the end of runCycle; when start() awaited this cycle, start() goes on to
\* create the interval timer
Finish(c, t, o, threw) ==
    /\ objs' = o
    /\ thr' = [thr EXCEPT ![c] = IdleThr]
    /\ lastCycle' = [kind |-> "done", threw |-> threw, allowed |-> t.allowed,
                     managed |-> t.managed, opened |-> t.opened]
    /\ IF t.starter
       THEN intervalId' = TRUE /\ timers' = timers + 1
       ELSE UNCHANGED <<intervalId, timers>>

\* the signal loop resumes
ContinueSignals(c, t, ps, o) ==
    LET r == SignalLoop(ps, o, t.sigs, t.avail, positionSizePercent,
                        minTradeSize, maxPositions, config.minTradeSize)
    IN IF r.go
       THEN /\ thr' = [thr EXCEPT ![c] =
                          [t EXCEPT !.pc = "openQuote", !.sigs = r.sigs,
                                    !.amount = PositionSize(t.avail,
                                                     positionSizePercent)]]
            /\ objs' = o
            /\ lastCycle' = NoCycle
            /\ UNCHANGED <<intervalId, timers>>
       ELSE Finish(c, [t EXCEPT !.sigs = <<>>], o, FALSE)

\* executeSignal returns to its caller: to the signal loop of runCycle,
\* which stops at the first position opened, or to a direct caller
SignalReturns(c, t, ps, o, opened) ==
    IF t.direct
    THEN /\ thr' = [thr EXCEPT ![c] = IdleThr]
         /\ objs' = o
         /\ lastCycle' = NoCycle
         /\ UNCHANGED <<intervalId, timers>>
    ELSE IF opened THEN Finish(c, [t EXCEPT !.opened = TRUE], o, FALSE)
    ELSE ContinueSignals(c, [t EXCEPT !.sigs = Tail(t.sigs)], ps, o)

\* runCycle after the management pass has returned
AfterManage(c, t, ps, o, st) ==
    IF TradingBlocked(t) THEN Finish(c, t, o, FALSE)
    ELSE \E sigs \in SignalChoices :
            ContinueSignals(c, [t EXCEPT !.sigs = sigs,
                                         !.avail = getAvailableCapital(ps, o, st, limits)],
                            ps, o)

\* the loop of checkAndManagePositions (a cycle) or of closeAllPositions
\* (an emergency stop) resumes on ledger ps, o, st
Resume(p, t, ps, o, st) ==
    LET m == IF p = 0 THEN CloseAllScan(ps, o, lastPrices, t.cursor)
             ELSE ManageScan(ps, o, lastPrices, stopLossPercent, t.cursor)
        t2 == [t EXCEPT !.managed = TRUE, !.cursor = m.cursor,
                        !.closing = m.close, !.reason = m.reason,
                        !.price = m.price]
    IN IF m.close # 0
       THEN /\ thr' = [thr EXCEPT ![p] = [t2 EXCEPT !.pc = "closeQuote"]]
            /\ objs' = m.objs
            /\ lastCycle' = NoCycle
            /\ UNCHANGED <<intervalId, timers>>
       ELSE IF p = 0
       THEN /\ thr' = [thr EXCEPT ![p] = IdleThr]
            /\ objs' = m.objs
            /\ lastCycle' = EmergencyDone(t.atCall)
            /\ UNCHANGED <<intervalId, timers>>
       ELSE AfterManage(p, t2, ps, m.objs, st)


\* --------------------------------------------------------- SelfFundingBot
\* The scheduling of SelfFundingBot: start(), stop(), the two interval
\* timers and the calls of runFlashLoanCycle and runTradingCycle they make.
\* A trading cycle is the cycle of the bot above; here only its start and
\* its return matter.
FlashSlots == 1..MaxFlashInFlight
TradingSlots == 1..MaxTradingInFlight

NoFundConfig == [set |-> FALSE, enableFlashLoans |-> FALSE,
                 bootstrapMode |-> FALSE]
FundConfigs ==
    {[set |-> TRUE, enableFlashLoans |-> e, bootstrapMode |-> b]
        : e \in BOOLEAN, b \in BOOLEAN}

ByStart == [kind |-> "start", slot |-> 0]
ByTimer == [kind |-> "timer", slot |-> 0]
ByFlash(i) == [kind |-> "flash", slot |-> i]
IdleFlash == [pc |-> "idle", caller |-> ByTimer]
IdleTrading == [pc |-> "idle", caller |-> ByTimer]

InitFund ==
    /\ sfBot = [config |-> NoFundConfig, isRunning |-> FALSE,
                mode |-> "BOOTSTRAP", flashLoanIntervalId |-> FALSE,
                tradingIntervalId |-> FALSE]
    /\ sfTimers = [flash |-> 0, trading |-> 0]
    /\ sfCalls = [start |-> "idle",
                  flash |-> [i \in FlashSlots |-> IdleFlash],
                  trading |-> [j \in TradingSlots |-> IdleTrading]]
    /\ sfHist = [cycles |-> 0, stopped |-> FALSE]

\* the state of SelfFundingBot as one value; ok = FALSE when a step would
\* exceed the bounds of the model
Fund == [bot |-> sfBot, timers |-> sfTimers, calls |-> sfCalls,
         hist |-> sfHist, ok |-> TRUE]
FundBecomes(f) ==
    /\ f.ok
    /\ sfBot' = f.bot
    /\ sfTimers' = f.timers
    /\ sfCalls' = f.calls
    /\ sfHist' = f.hist

FreeSlot(calls, slots) ==
    IF \E i \in slots : calls[i].pc = "idle"
    THEN CHOOSE i \in slots :
            calls[i].pc = "idle" /\ \A j \in slots : calls[j].pc = "idle" => i <= j
    ELSE 0

\* a call of runFlashLoanCycle up to its first await
BeginFlashLoanCycle(f, caller) ==
    LET i == FreeSlot(f.calls.flash, FlashSlots) IN
    IF i = 0 \/ f.hist.cycles >= MaxFundCycles THEN [f EXCEPT !.ok = FALSE]
    ELSE [f EXCEPT !.calls.flash[i] = [pc |-> "scan", caller |-> caller],
                   !.hist.cycles = @ + 1]

\* a call of runTradingCycle up to its first await
BeginTradingCycle(f, caller) ==
    LET j == FreeSlot(f.calls.trading, TradingSlots) IN
    IF j = 0 \/ f.hist.cycles >= MaxFundCycles THEN [f EXCEPT !.ok = FALSE]
    ELSE [f EXCEPT !.calls.trading[j] = [pc |-> "run", caller |-> caller],
                   !.hist.cycles = @ + 1]

\* start() after its first trading cycle has returned
StartAfterTrading(f) ==
    [f EXCEPT !.bot.tradingIntervalId = TRUE, !.timers.trading = @ + 1,
              !.calls.start = "idle"]

\* start() after its first flash-loan cycle has returned
StartAfterFlash(f) ==
    LET g == [f EXCEPT !.bot.flashLoanIntervalId = TRUE,
                       !.timers.flash = @ + 1]
    IN IF g.bot.mode # "BOOTSTRAP"
       THEN BeginTradingCycle([g EXCEPT !.calls.start = "trading"], ByStart)
       ELSE [g EXCEPT !.calls.start = "idle"]

\* runFlashLoanCycle returns to its caller
EndFlashLoanCycle(f, i) ==
    LET g == [f EXCEPT !.calls.flash[i] = IdleFlash]
    IN IF f.calls.flash[i].caller = ByStart THEN StartAfterFlash(g) ELSE g

\* runFlashLoanCycle after the trading cycle it awaited has returned
FlashAfterTrading(f, i) ==
    EndFlashLoanCycle([f EXCEPT !.bot.tradingIntervalId = TRUE,
                                !.timers.trading = @ + 1], i)

\* runTradingCycle returns to its caller
EndTradingCycle(f, j) ==
    LET caller == f.calls.trading[j].caller
        g == [f EXCEPT !.calls.trading[j] = IdleTrading]
    IN IF caller = ByStart THEN StartAfterTrading(g)
       ELSE IF caller = ByTimer THEN g
       ELSE FlashAfterTrading(g, caller.slot)


\* ------------------------------------ MarketDataService, Backtester, main
\* a window before MarketDataService.init has created it
NoHistory == [set |-> FALSE, prices |-> <<>>, timestamps |-> <<>>,
              maxLength |-> 0]
NoSignal == [kind |-> "none"]
NoBacktest == [kind |-> "none"]
NoSfBacktest == [pc |-> "idle"]
TokenOrder == <<"SOL", "JUP">>
NotStarted == [pc |-> "load", errors |-> {}, healthy |-> TRUE]

InitSide ==
    /\ priceHistories = [tk \in Tokens |-> NoHistory]
    /\ feed = <<>>
    /\ observed = [tk \in Tokens |-> <<>>]
    /\ lastSignal = NoSignal
    /\ candles = [tk \in Tokens |-> <<>>]
    /\ btResult = NoBacktest
    /\ sfBacktest = NoSfBacktest
    /\ main = NotStarted

Init ==
    /\ now = StartTime
    /\ config = NoConfig
    /\ isRunning = FALSE
    /\ intervalId = FALSE
    /\ timers = 0
    /\ cycleCount = 0
    /\ thr = [p \in Procs |-> IdleThr]
    /\ InitLedger
    /\ lastPrices = [tk \in Tokens |-> NoPrice]
    /\ InitRisk
    /\ ticks = 0
    /\ lastStatus = NoStatus
    /\ recorded = <<>>
    /\ lastLossClose = 0
    /\ lastCycle = NoCycle
    /\ lastOp = NoOp
    /\ InitFund
    /\ InitSide

\* SolanaBot.init: setLimits and setParameters from the configuration
BotInit ==
    /\ config = NoConfig
    /\ \E cfg \in Configs :
        /\ config' = cfg
        /\ limits' = [limits EXCEPT
                        !.initialCapital = cfg.initialCapital,
                        !.maxDrawdownPercent = cfg.maxDrawdownPercent,
                        !.maxDailyLossPercent = cfg.maxDailyLossPercent]
        /\ maxPositions' = cfg.maxPositions
        /\ positionSizePercent' = cfg.positionSizePercent
        /\ takeProfitPercent' = cfg.takeProfitPercent
        /\ stopLossPercent' = cfg.stopLossPercent
        /\ minTradeSize' = cfg.minTradeSize
    /\ UNCHANGED <<now, isRunning, intervalId, timers, cycleCount, thr,
                   ledgerVars, lastPrices, tradeTimestamps, dailyPnl,
                   dailyStartTime, lastLossTime, isPaused, histVars>>
    /\ Quiet
    /\ UNCHANGED <<fundVars, sideVars>>

\* runCycle up to its first await (the price fetch)
BeginCycle(c, starter) ==
    /\ thr[c].pc = "idle"
    /\ \A d \in Cycles : d < c => thr[d].pc # "idle"
    /\ cycleCount < MaxCycles
    /\ cycleCount' = cycleCount + 1
    /\ thr' = [thr EXCEPT ![c] = [IdleThr EXCEPT !.pc = "fetch",
                                                 !.starter = starter]]

\* SolanaBot.start up to the await of the first cycle
Start ==
    /\ config.set
    /\ ~isRunning
    /\ timers + Cardinality({c \in Cycles : thr[c].starter}) < MaxTimers
    /\ isRunning' = TRUE
    /\ \E c \in Cycles : BeginCycle(c, TRUE)
    /\ UNCHANGED <<now, config, intervalId, timers, ledgerVars, paramVars,
                   lastPrices, riskVars, histVars>>
    /\ Quiet
    /\ UNCHANGED <<fundVars, sideVars>>

\* the setInterval callback
Tick ==
    /\ timers > 0
    /\ isRunning
    /\ \E c \in Cycles : BeginCycle(c, FALSE)
    /\ UNCHANGED <<now, config, isRunning, intervalId, timers, ledgerVars,
                   paramVars, lastPrices, riskVars, histVars>>
    /\ Quiet
    /\ UNCHANGED <<fundVars, sideVars>>

\* SolanaBot.stop
Stop ==
    /\ config.set
    /\ isRunning' = FALSE
    /\ intervalId' = FALSE
    /\ timers' = IF intervalId THEN timers - 1 ELSE timers
    /\ UNCHANGED <<now, config, cycleCount, thr, ledgerVars, paramVars,
                   lastPrices, riskVars, histVars>>
    /\ Quiet
    /\ UNCHANGED <<fundVars, sideVars>>

\* fetchPrices returns: every token the response prices gets a new last
\* price (a failed fetch prices none), then checkRisk awaits the balance
FetchReturn(c) ==
    /\ thr[c].pc = "fetch"
    /\ \E upd \in PriceUpdates :
          lastPrices' = [tk \in Tokens |->
                            IF upd[tk] # NoPrice THEN upd[tk] ELSE lastPrices[tk]]
    /\ thr' = [thr EXCEPT ![c].pc = "risk"]
    /\ UNCHANGED <<now, config, isRunning, intervalId, timers, cycleCount,
                   ledgerVars, paramVars, riskVars, histVars>>
    /\ Quiet
    /\ UNCHANGED <<fundVars, sideVars>>

\* checkRisk returns to runCycle, which runs the management pass up to its
\* first close and, when trading is allowed and no close is due, the
\* signal loop up to its first quote
RiskReturn(c) ==
    /\ thr[c].pc = "risk"
    /\ \E bal \in Balances :
        LET st == RiskEval(bal, getPositionValue(positions, objs, lastPrices))
        IN /\ lastStatus' = st
           /\ RiskEffects
           /\ IF st.kind = "threw"
              THEN Finish(c, thr[c], objs, TRUE)
              ELSE Resume(c, [thr[c] EXCEPT !.allowed = st.isTradeAllowed,
                                            !.cursor = 0],
                          positions, objs, stats)
    /\ UNCHANGED <<now, config, isRunning, cycleCount, positions,
                   closedPositions, stats, paramVars, lastPrices, ticks,
                   recorded, lastLossClose>>
    /\ lastOp' = NoOp
    /\ UNCHANGED <<fundVars, sideVars>>

\* closePosition: the sell quote returns
CloseQuoteReturn(p) ==
    /\ thr[p].pc = "closeQuote"
    /\ \E q \in SellQuotes :
        IF QuoteMissing(q)
        THEN /\ lastOp' = CloseOp(thr[p].closing, thr[p].price,
                                  thr[p].reason, q, NoResult)
             /\ Resume(p, thr[p], positions, objs, stats)
        ELSE /\ thr' = [thr EXCEPT ![p].pc = "closeSwap", ![p].quote = q]
             /\ lastOp' = NoOp
             /\ lastCycle' = NoCycle
             /\ UNCHANGED <<objs, intervalId, timers>>
    /\ UNCHANGED <<now, config, isRunning, cycleCount, positions,
                   closedPositions, stats, paramVars, lastPrices, riskVars,
                   ticks, recorded, lastLossClose>>
    /\ lastStatus' = NoStatus
    /\ UNCHANGED <<fundVars, sideVars>>

\* closePosition: the sell swap returns
CloseSwapReturn(p) ==
    /\ thr[p].pc = "closeSwap"
    /\ \E res \in SellResults(objs[thr[p].closing]) :
        LET k == thr[p].closing
            t == [thr[p] EXCEPT !.quote = NoQuote]
        IN /\ lastOp' = CloseOp(k, thr[p].price, thr[p].reason,
                             thr[p].quote, res)
           /\ IF SellSwapFailed(res)
              THEN /\ Resume(p, t, positions, objs, stats)
                   /\ UNCHANGED <<positions, closedPositions, stats,
                                  lastLossClose>>
              ELSE LET out == res.outputAmount
                       pnl == out - objs[k].usdcSpent
                       o2 == [objs EXCEPT
                                ![k] = ClosedObj(objs[k], thr[p].price, out)]
                       ps2 == MapDelete(positions, objs[k].id)
                       st2 == CloseStats(stats, pnl, out)
                   IN /\ positions' = ps2
                      /\ closedPositions' = Append(closedPositions, k)
                      /\ stats' = st2
                      /\ lastLossClose' = IF pnl < 0 THEN now ELSE lastLossClose
                      /\ Resume(p, t, ps2, o2, st2)
    /\ UNCHANGED <<now, config, isRunning, cycleCount, paramVars, lastPrices,
                   riskVars, ticks, recorded>>
    /\ lastStatus' = NoStatus
    /\ UNCHANGED <<fundVars, sideVars>>

\* openLongPosition: the buy quote returns (none, or with a price impact
\* above the limit, or acceptable)
OpenQuoteReturn(c) ==
    /\ thr[c].pc = "openQuote"
    /\ \E q \in BuyQuotes :
        IF QuoteMissing(q) \/ HighPriceImpact(q)
        THEN /\ lastOp' = OpenOp(Head(thr[c].sigs), thr[c].avail, q, NoResult, 0)
             /\ SignalReturns(c, thr[c], positions, objs, FALSE)
        ELSE /\ thr' = [thr EXCEPT ![c].pc = "openSwap", ![c].quote = q]
             /\ lastOp' = NoOp
             /\ lastCycle' = NoCycle
             /\ UNCHANGED <<objs, intervalId, timers>>
    /\ UNCHANGED <<now, config, isRunning, cycleCount, positions,
                   closedPositions, stats, paramVars, lastPrices, riskVars,
                   ticks, recorded, lastLossClose>>
    /\ lastStatus' = NoStatus
    /\ UNCHANGED <<fundVars, sideVars>>

\* openLongPosition: the buy swap returns
OpenSwapReturn(c) ==
    /\ thr[c].pc = "openSwap"
    /\ \E res \in BuyResults(thr[c].amount) :
        LET t == [thr[c] EXCEPT !.quote = NoQuote] IN
        IF BuySwapFailed(res)
        THEN /\ lastOp' = OpenOp(Head(thr[c].sigs), thr[c].avail,
                                 thr[c].quote, res, 0)
             /\ SignalReturns(c, t, positions, objs, FALSE)
             /\ UNCHANGED <<positions, stats>>
        ELSE LET pos == NewPosition(Head(thr[c].sigs), res.inputAmount,
                                    res.outputAmount, takeProfitPercent,
                                    stopLossPercent, now)
                 o2 == Append(objs, pos)
             IN /\ lastOp' = OpenOp(Head(thr[c].sigs), thr[c].avail,
                                    thr[c].quote, res, Len(o2))
                /\ positions' = MapSet(positions, pos.id, Len(o2))
                /\ stats' = [stats EXCEPT !.volume = @ + res.inputAmount]
                /\ SignalReturns(c, t, MapSet(positions, pos.id, Len(o2)),
                                 o2, TRUE)
    /\ UNCHANGED <<now, config, isRunning, cycleCount, closedPositions,
                   paramVars, lastPrices, riskVars, ticks, recorded,
                   lastLossClose>>
    /\ lastStatus' = NoStatus
    /\ UNCHANGED <<fundVars, sideVars>>

\* SolanaBot.emergencyStop: stop(), then RiskManager.emergencyStop up to the
\* first close of closeAllPositions
EmergencyStop ==
    /\ config.set
    /\ thr[0].pc = "idle"
    /\ isRunning' = FALSE
    /\ intervalId' = FALSE
    /\ timers' = IF intervalId THEN timers - 1 ELSE timers
    /\ isPaused' = TRUE
    /\ LET m == CloseAllScan(positions, objs, lastPrices, 0)
       IN /\ thr' = [thr EXCEPT ![0] =
                       IF m.close = 0 THEN IdleThr
                       ELSE [IdleThr EXCEPT !.pc = "closeQuote",
                                            !.cursor = m.cursor,
                                            !.closing = m.close,
                                            !.reason = m.reason,
                                            !.price = m.price,
                                            !.atCall = OpenObjs(positions)]]
          /\ lastCycle' = IF m.close = 0
                          THEN EmergencyDone(OpenObjs(positions))
                          ELSE NoCycle
    /\ UNCHANGED <<now, config, cycleCount, ledgerVars, paramVars, lastPrices,
                   limits, tradeTimestamps, dailyPnl, dailyStartTime,
                   lastLossTime, histVars>>
    /\ lastStatus' = NoStatus
    /\ lastOp' = NoOp
    /\ UNCHANGED <<fundVars, sideVars>>

\* SolanaBot.pause / RiskManager.pause
Pause ==
    /\ isPaused' = TRUE
    /\ UNCHANGED <<now, botVars, ledgerVars, paramVars, lastPrices, limits,
                   tradeTimestamps, dailyPnl, dailyStartTime, lastLossTime,
                   histVars>>
    /\ Quiet
    /\ UNCHANGED <<fundVars, sideVars>>

\* SolanaBot.resume / RiskManager.resume
ResumeTrading ==
    /\ isPaused' = FALSE
    /\ UNCHANGED <<now, botVars, ledgerVars, paramVars, lastPrices, limits,
                   tradeTimestamps, dailyPnl, dailyStartTime, lastLossTime,
                   histVars>>
    /\ Quiet
    /\ UNCHANGED <<fundVars, sideVars>>

\* the clock moves on
Advance ==
    /\ ticks < MaxTicks
    /\ ticks' = ticks + 1
    /\ now' = now + TimeStep
    /\ UNCHANGED <<botVars, ledgerVars, paramVars, lastPrices, riskVars,
                   recorded, lastLossClose>>
    /\ Quiet
    /\ UNCHANGED <<fundVars, sideVars>>

Next ==
    \/ BotInit
    \/ Start
    \/ Tick
    \/ \E c \in Cycles : FetchReturn(c)
    \/ \E c \in Cycles : RiskReturn(c)
    \/ \E p \in Procs : CloseQuoteReturn(p)
    \/ \E p \in Procs : CloseSwapReturn(p)
    \/ \E c \in Cycles : OpenQuoteReturn(c)
    \/ \E c \in Cycles : OpenSwapReturn(c)
    \/ Advance

Spec == Init /\ [][Next]_vars

\* ------------------------------------- TradingStrategy driven directly
\* executeSignal is a public method: a caller other than runCycle may pass
\* it any signal and any available capital.
ExecuteSignal(c) ==
    /\ config.set
    /\ thr[c].pc = "idle"
    /\ \A d \in Cycles : d < c => thr[d].pc # "idle"
    /\ Len(objs) + Cardinality(Opening) < MaxObjs
    /\ \E tk \in Tokens, avail \in Avails :
        \E pr \in PricesOf(tk) :
          LET sig == [token |-> tk, price |-> pr] IN
          IF SignalRejected(positions, objs, sig, avail, positionSizePercent,
                            minTradeSize, maxPositions)
          THEN /\ lastOp' = OpenOp(sig, avail, NoQuote, NoResult, 0)
               /\ UNCHANGED thr
          ELSE /\ lastOp' = NoOp
               /\ thr' = [thr EXCEPT ![c] =
                            [IdleThr EXCEPT
                               !.pc = "openQuote", !.sigs = <<sig>>,
                               !.avail = avail, !.direct = TRUE,
                               !.amount = PositionSize(avail,
                                                       positionSizePercent)]]
    /\ UNCHANGED <<now, config, isRunning, intervalId, timers, cycleCount,
                   ledgerVars, paramVars, lastPrices, riskVars, histVars>>
    /\ lastStatus' = NoStatus
    /\ lastCycle' = NoCycle
    /\ UNCHANGED <<fundVars, sideVars>>

StrategyNext ==
    \/ BotInit
    \/ \E c \in Cycles : ExecuteSignal(c)
    \/ \E c \in Cycles : OpenQuoteReturn(c)
    \/ \E c \in Cycles : OpenSwapReturn(c)
    \/ Advance

StrategySpec == Init /\ [][StrategyNext]_vars

\* ------------------------------------------ the bot and its emergency stop
\* The bot when its operator may call the emergency stop at any time and
\* start it again afterwards; the interval is long enough for no timer to
\* fire.
StopNext ==
    \/ BotInit
    \/ Start
    \/ EmergencyStop
    \/ \E c \in Cycles : FetchReturn(c)
    \/ \E c \in Cycles : RiskReturn(c)
    \/ \E p \in Procs : CloseQuoteReturn(p)
    \/ \E p \in Procs : CloseSwapReturn(p)
    \/ \E c \in Cycles : OpenQuoteReturn(c)
    \/ \E c \in Cycles : OpenSwapReturn(c)

StopSpec == Init /\ [][StopNext]_vars

\* ------------------------------------- RiskManager driven through its API
\* The risk gate on its own: any caller may record trades, evaluate the
\* gate, pause and resume, at any time of day.
RiskInit ==
    /\ now \in StartTimes
    /\ config = NoConfig
    /\ isRunning = FALSE
    /\ intervalId = FALSE
    /\ timers = 0
    /\ cycleCount = 0
    /\ thr = [p \in Procs |-> IdleThr]
    /\ InitLedger
    /\ lastPrices = [tk \in Tokens |-> NoPrice]
    /\ InitRisk
    /\ ticks = 0
    /\ lastStatus = NoStatus
    /\ recorded = <<>>
    /\ lastLossClose = 0
    /\ lastCycle = NoCycle
    /\ lastOp = NoOp
    /\ InitFund
    /\ InitSide

\* RiskManager.setLimits, called before trading begins
SetLimits ==
    /\ ticks = 0
    /\ recorded = <<>>
    /\ limits = DefaultLimits
    /\ \E lim \in LimitChoices : limits' = lim
    /\ UNCHANGED <<now, botVars, ledgerVars, paramVars, lastPrices,
                   tradeTimestamps, dailyPnl, dailyStartTime, lastLossTime,
                   isPaused, histVars>>
    /\ Quiet
    /\ UNCHANGED <<fundVars, sideVars>>

\* RiskManager.recordTrade
RecordTrade ==
    /\ Len(recorded) < MaxRecorded
    /\ \E pnl \in Pnls :
        /\ tradeTimestamps' = Append(tradeTimestamps, now)
        /\ dailyPnl' = dailyPnl + pnl
        /\ lastLossTime' = IF pnl < 0 THEN now ELSE lastLossTime
        /\ recorded' = Append(recorded, [t |-> now, pnl |-> pnl])
    /\ UNCHANGED <<now, botVars, ledgerVars, paramVars, lastPrices, limits,
                   dailyStartTime, isPaused, ticks, lastLossClose>>
    /\ Quiet
    /\ UNCHANGED <<fundVars, sideVars>>

\* RiskManager.checkRisk, from the arrival of the balance to its return
CheckRisk ==
    /\ \E bal \in Balances :
          lastStatus' = RiskEval(bal, getPositionValue(positions, objs, lastPrices))
    /\ RiskEffects
    /\ lastCycle' = NoCycle
    /\ lastOp' = NoOp
    /\ UNCHANGED <<now, botVars, ledgerVars, paramVars, lastPrices, histVars>>
    /\ UNCHANGED <<fundVars, sideVars>>

RiskAdvance ==
    /\ ticks < MaxRiskTicks
    /\ ticks' = ticks + 1
    /\ now' = now + TimeStep
    /\ UNCHANGED <<botVars, ledgerVars, paramVars, lastPrices, riskVars,
                   recorded, lastLossClose>>
    /\ Quiet
    /\ UNCHANGED <<fundVars, sideVars>>

RiskNext ==
    \/ SetLimits
    \/ RecordTrade
    \/ CheckRisk
    \/ Pause
    \/ ResumeTrading
    \/ RiskAdvance

RiskSpec == RiskInit /\ [][RiskNext]_vars

\* ------------------------------------------- SelfFundingBot: its actions
\* SelfFundingBot.init: the starting mode
FundInit ==
    /\ ~sfBot.config.set
    /\ \E cfg \in FundConfigs, belowTarget \in BOOLEAN :
          sfBot' = [sfBot EXCEPT
                      !.config = cfg,
                      !.mode = IF cfg.bootstrapMode /\ belowTarget
                               THEN "BOOTSTRAP"
                               ELSE IF cfg.enableFlashLoans THEN "HYBRID"
                               ELSE "TRADING"]
    /\ UNCHANGED <<sfTimers, sfCalls, sfHist, tradeVars, sideVars>>

\* SelfFundingBot.start up to its first await (one call of start() at a time)
FundStart ==
    /\ sfBot.config.set
    /\ ~sfBot.isRunning
    /\ sfCalls.start = "idle"
    /\ LET f == [Fund EXCEPT !.bot.isRunning = TRUE, !.hist.stopped = FALSE]
       IN IF f.bot.config.enableFlashLoans \/ f.bot.mode = "BOOTSTRAP"
          THEN FundBecomes(BeginFlashLoanCycle(
                              [f EXCEPT !.calls.start = "flash"], ByStart))
          ELSE FundBecomes(BeginTradingCycle(
                              [f EXCEPT !.calls.start = "trading"], ByStart))
    /\ UNCHANGED <<tradeVars, sideVars>>

\* SelfFundingBot.stop
FundStop ==
    /\ sfBot.config.set
    /\ FundBecomes(
          [Fund EXCEPT
              !.bot.isRunning = FALSE,
              !.bot.flashLoanIntervalId = FALSE,
              !.bot.tradingIntervalId = FALSE,
              !.timers.flash = IF sfBot.flashLoanIntervalId THEN @ - 1 ELSE @,
              !.timers.trading = IF sfBot.tradingIntervalId THEN @ - 1 ELSE @,
              !.hist.stopped = TRUE])
    /\ UNCHANGED <<tradeVars, sideVars>>

\* the callback of the flash-loan interval
FlashTick ==
    /\ sfTimers.flash > 0
    /\ FundBecomes(BeginFlashLoanCycle(Fund, ByTimer))
    /\ UNCHANGED <<tradeVars, sideVars>>

\* the callback of the trading interval
TradingTick ==
    /\ sfTimers.trading > 0
    /\ FundBecomes(BeginTradingCycle(Fund, ByTimer))
    /\ UNCHANGED <<tradeVars, sideVars>>

\* runFlashLoanCycle: runSelfFundingCycle returns (or raises)
FlashScanReturn(i) ==
    /\ sfCalls.flash[i].pc = "scan"
    /\ \E executed \in BOOLEAN :
          IF executed
          THEN FundBecomes([Fund EXCEPT !.calls.flash[i].pc = "balance"])
          ELSE FundBecomes(EndFlashLoanCycle(Fund, i))
    /\ UNCHANGED <<tradeVars, sideVars>>

\* runFlashLoanCycle: the new balance arrives
FlashBalanceReturn(i) ==
    /\ sfCalls.flash[i].pc = "balance"
    /\ \E reached \in BOOLEAN :
          IF sfBot.mode = "BOOTSTRAP" /\ reached
          THEN LET f == [Fund EXCEPT
                            !.bot.mode = IF sfBot.config.enableFlashLoans
                                         THEN "HYBRID" ELSE "TRADING"]
               IN IF ~sfBot.tradingIntervalId
                  THEN FundBecomes(BeginTradingCycle(
                          [f EXCEPT !.calls.flash[i].pc = "trading"],
                          ByFlash(i)))
                  ELSE FundBecomes(EndFlashLoanCycle(f, i))
          ELSE FundBecomes(EndFlashLoanCycle(Fund, i))
    /\ UNCHANGED <<tradeVars, sideVars>>

\* runTradingCycle returns
TradingCycleReturn(j) ==
    /\ sfCalls.trading[j].pc = "run"
    /\ FundBecomes(EndTradingCycle(Fund, j))
    /\ UNCHANGED <<tradeVars, sideVars>>

FundNext ==
    \/ FundInit
    \/ FundStart
    \/ FundStop
    \/ FlashTick
    \/ TradingTick
    \/ \E i \in FlashSlots : FlashScanReturn(i)
    \/ \E i \in FlashSlots : FlashBalanceReturn(i)
    \/ \E j \in TradingSlots : TradingCycleReturn(j)

FundSpec == Init /\ [][FundNext]_vars


\* ------------------------------------------------------ MarketDataService
\* The price windows and the signal generator.  Prices of a window are whole
\* numbers.  Weights and confidences are counted in 1/10000 (Unit), and so
\* are the values of %B and of the moving averages behind the MACD: the
\* quotients and square roots Big computes to 20 decimals are rounded down
\* to that unit.  What the code only compares with a threshold (RSI, trend
\* strength, volatility, %K, momentum) is cross-multiplied and exact.
Unit == 10000
MinConfidence == 6000
MaxConfidence == 9000
DefaultHistoryLength == 60
IntervalMs == 5000

\* PRICE_HISTORY_LENGTH as SolanaBot.init passes it on; 0: not configured
HistoryLengths == {0, 2, MaxFeed - 1}

Flat(p, n) == [i \in 1..n |-> p]
Decline(p, n) == [i \in 1..n |-> p - i]
RECURSIVE SeqsUpTo(_, _)
SeqsUpTo(S, n) ==
    IF n = 0 THEN {<<>>}
    ELSE SeqsUpTo(S, n - 1)
            \cup {Append(q, x) : q \in {r \in SeqsUpTo(S, n - 1) : Len(r) = n - 1},
                                 x \in S}

\* the closes a price series may end with after a flat stretch at 100
Endings ==
    {<<>>, <<99>>, <<97>>, <<99, 98, 97>>, <<101, 102, 103>>,
     <<103, 103, 103, 103, 103>>, <<104, 96>>}
Series ==
    {Flat(100, MaxFeed - Len(e)) \o e : e \in Endings}
        \cup {Decline(130, MaxFeed)}
        \cup (SeqsUpTo({99, 100}, MaxFree) \ {<<>>})

\* what the price API serves, fetch after fetch: SOL follows a series, JUP
\* is priced at every second fetch or never
Feeds ==
    {[i \in 1..Len(q) |->
        [tk \in Tokens |->
            IF tk = "SOL" THEN q[i]
            ELSE IF both /\ i % 2 = 0 THEN 7 ELSE NoPrice]]
        : q \in Series, both \in BOOLEAN}

RECURSIVE SeqSum(_)
SeqSum(q) == IF q = <<>> THEN 0 ELSE Head(q) + SeqSum(Tail(q))
RECURSIVE SeqSumSquares(_)
SeqSumSquares(q) ==
    IF q = <<>> THEN 0 ELSE Head(q) * Head(q) + SeqSumSquares(Tail(q))
RECURSIVE SeqMax(_)
SeqMax(q) ==
    IF Len(q) = 1 THEN q[1]
    ELSE IF Head(q) > SeqMax(Tail(q)) THEN Head(q) ELSE SeqMax(Tail(q))
RECURSIVE SeqMin(_)
SeqMin(q) ==
    IF Len(q) = 1 THEN q[1]
    ELSE IF Head(q) < SeqMin(Tail(q)) THEN Head(q) ELSE SeqMin(Tail(q))
Min2(a, b) == IF a < b THEN a ELSE b

\* prices.slice(-n) and prices.slice(0, n)
LastN(q, n) == SubSeq(q, Len(q) - n + 1, Len(q))
FirstN(q, n) == SubSeq(q, 1, n)

\* the integer square root
RECURSIVE SqrtBetween(_, _, _)
SqrtBetween(x, lo, hi) ==
    IF lo >= hi THEN lo
    ELSE LET mid == (lo + hi + 1) \div 2
         IN IF mid * mid <= x THEN SqrtBetween(x, mid, hi)
            ELSE SqrtBetween(x, lo, mid - 1)
Isqrt(x) == SqrtBetween(x, 0, 46340)

\* init: if (historyLength) this.historyLength = historyLength
HistoryLengthOf(hl) == IF hl # 0 THEN hl ELSE DefaultHistoryLength

\* updatePriceHistory: push, then shift while the window is too long
TrimHistory_pop(h) ==
    IF Len(h.prices) > h.maxLength
    THEN [h EXCEPT !.prices = SubSeq(@, 1, h.maxLength),
                   !.timestamps = SubSeq(@, 1, h.maxLength)]
    ELSE h
\* the while loop shifts the oldest entry out until maxLength are left
TrimHistory(h) ==
    IF Len(h.prices) > h.maxLength
    THEN [h EXCEPT !.prices = SubSeq(@, Len(@) - h.maxLength + 1, Len(@)),
                   !.timestamps = SubSeq(@, Len(@) - h.maxLength + 1, Len(@))]
    ELSE h
updatePriceHistory(h, price, timestamp) ==
    IF ~h.set THEN h
    ELSE TrimHistory([h EXCEPT !.prices = Append(@, price),
                               !.timestamps = Append(@, timestamp)])

\* ---- indicators on a window w (the code returns null where w is too
\* short; the callers below test the length first)
\* gains and losses of the last n changes
RECURSIVE Gains(_)
Gains(q) ==
    IF Len(q) < 2 THEN 0
    ELSE (IF q[2] - q[1] > 0 THEN q[2] - q[1] ELSE 0) + Gains(Tail(q))
RECURSIVE Losses(_)
Losses(q) ==
    IF Len(q) < 2 THEN 0
    ELSE (IF q[2] - q[1] > 0 THEN 0 ELSE q[1] - q[2]) + Losses(Tail(q))

\* calculateRSI as the fraction num / den: 100 when nothing was lost, else
\* 100 - 100 / (1 + gains / losses)
RsiFlat_zero(w, n) == [num |-> 0, den |-> 1]
RsiFlat(w, n) == [num |-> 100, den |-> 1]
calculateRSI(w, n) ==
    LET q == LastN(w, n + 1)
    IN IF Losses(q) = 0 THEN RsiFlat(w, n)
       ELSE [num |-> 100 * Gains(q), den |-> Gains(q) + Losses(q)]
RsiBelow(rsi, x) == rsi.num < x * rsi.den
RsiAbove(rsi, x) == rsi.num > x * rsi.den

\* trendStrength = (sma5 - sma20) / sma20 * 100, compared with x tenths of
\* a percent
TrendTimes20(w) == 4 * SeqSum(LastN(w, 5)) - SeqSum(LastN(w, 20))
TrendAbove(w, x) == TrendTimes20(w) * 1000 > x * SeqSum(LastN(w, 20))
TrendBelow(w, x) == TrendTimes20(w) * 1000 < x * SeqSum(LastN(w, 20))

\* n * n * the variance of the last n prices
Spread(w, n) ==
    n * SeqSumSquares(LastN(w, n)) - SeqSum(LastN(w, n)) * SeqSum(LastN(w, n))

\* calculateVolatility(w, n) < x percent
VolatilityBelow(w, n, x) ==
    Spread(w, n) * 10000 < x * x * SeqSum(LastN(w, n)) * SeqSum(LastN(w, n))

\* calculateBollingerBands(w, 20): percentB in Unit
percentB(w) ==
    LET q == LastN(w, 20)
        root == Isqrt(Spread(w, 20) * 10000)
    IN IF Spread(w, 20) = 0 THEN Unit \div 2
       ELSE Unit \div 2
              + ((20 * q[20] - SeqSum(q)) * 25 * Unit) \div root

\* calculateStochastic(w, 14): %K compared with x
StochasticBelow(w, x) ==
    LET q == LastN(w, 14)
        range == SeqMax(q) - SeqMin(q)
    IN IF range = 0 THEN 50 < x ELSE (q[14] - SeqMin(q)) * 100 < x * range
StochasticAbove(w, x) ==
    LET q == LastN(w, 14)
        range == SeqMax(q) - SeqMin(q)
    IN IF range = 0 THEN 50 > x ELSE (q[14] - SeqMin(q)) * 100 > x * range

\* calculateMomentum(w, 10) compared with x percent
MomentumAbove(w, x) ==
    (w[Len(w)] - w[Len(w) - 10]) * 100 > x * w[Len(w) - 10]
MomentumBelow(w, x) ==
    (w[Len(w)] - w[Len(w) - 10]) * 100 < x * w[Len(w) - 10]

\* ema = price * multiplier + ema * (1 - multiplier), multiplier 2 / (n + 1)
RECURSIVE EmaOver(_, _, _)
EmaOver(ema, q, n) ==
    IF q = <<>> THEN ema
    ELSE EmaOver((2 * Head(q) * Unit + (n - 1) * ema) \div (n + 1), Tail(q), n)

\* calculateEMA: seeded with the SMA of the last n prices, run over the
\* last n - 1 of them
calculateEMA(w, n) ==
    EmaOver((SeqSum(LastN(w, n)) * Unit) \div n, Tail(LastN(w, n)), n)

\* calculateEMAFromPrices: seeded with the SMA of the first n prices, run
\* over the rest
calculateEMAFromPrices(q, n) ==
    EmaOver((SeqSum(FirstN(q, n)) * Unit) \div n, SubSeq(q, n + 1, Len(q)), n)

RECURSIVE SignalLine(_, _)
SignalLine(signal, values) ==
    IF values = <<>> THEN signal
    ELSE SignalLine((2 * Head(values) + 8 * signal) \div 10, Tail(values))

\* calculateMACD; none when the window holds fewer than 35 prices
calculateMACD(w) ==
    IF Len(w) < 35 THEN [some |-> FALSE, macd |-> 0, histogram |-> 0]
    ELSE LET macd == calculateEMA(w, 12) - calculateEMA(w, 26)
             macdValues ==
                [i \in 1..(Len(w) - 26) |->
                    calculateEMAFromPrices(FirstN(w, i + 26), 12)
                        - calculateEMAFromPrices(FirstN(w, i + 26), 26)]
             signal == SignalLine(SeqSum(FirstN(macdValues, 9)) \div 9,
                                  SubSeq(macdValues, 10, Len(macdValues)))
         IN [some |-> TRUE, macd |-> macd, histogram |-> macd - signal]

\* the Bollinger vote: near the lower band it goes to the BUY side with
\* weight 0.2 * (1 - 2 * %B), near the upper band to the SELL side with
\* weight 0.2 * (%B - 0.5) * 2
BollingerBuy(w) ==
    IF percentB(w) < 1000 THEN (Unit - 2 * percentB(w)) \div 5 ELSE 0
BollingerSell(w) ==
    IF ~(percentB(w) < 1000) /\ percentB(w) > 9000
    THEN (4 * (percentB(w) - Unit \div 2)) \div 10 ELSE 0

\* the weights analyzeMarket collects for one side
BuyWeight(w) ==
    LET rsi == calculateRSI(w, 14)
        macd == calculateMACD(w)
    IN (IF RsiBelow(rsi, 30)
        THEN (2500 * (30 * rsi.den - rsi.num)) \div (30 * rsi.den) ELSE 0)
     + (IF macd.some /\ macd.histogram > 0 /\ macd.macd > 0 THEN 2000 ELSE 0)
     + BollingerBuy(w)
     + (IF StochasticBelow(w, 20) THEN 1500 ELSE 0)
     + (IF MomentumAbove(w, 1) /\ TrendAbove(w, 0) THEN 1000 ELSE 0)
     + (IF VolatilityBelow(w, 20, 3) /\ TrendAbove(w, 5) THEN 1000 ELSE 0)
SellWeight(w) ==
    LET rsi == calculateRSI(w, 14)
        macd == calculateMACD(w)
    IN (IF ~RsiBelow(rsi, 30) /\ RsiAbove(rsi, 70)
        THEN (2500 * (rsi.num - 70 * rsi.den)) \div (30 * rsi.den) ELSE 0)
     + (IF macd.some /\ macd.histogram < 0 /\ macd.macd < 0 THEN 2000 ELSE 0)
     + BollingerSell(w)
     + (IF ~StochasticBelow(w, 20) /\ StochasticAbove(w, 80) THEN 1500 ELSE 0)
     + (IF MomentumBelow(w, -1) /\ TrendBelow(w, 0) THEN 1000 ELSE 0)
     + (IF VolatilityBelow(w, 20, 3) /\ ~TrendAbove(w, 5) /\ TrendBelow(w, -5)
        THEN 1000 ELSE 0)

Hold == [signal |-> "HOLD", confidence |-> 0, candidate |-> "HOLD"]

\* if (confidence < 0.6) signal = "HOLD"
ConfidenceGate_none(s) == s
ConfidenceGate(s) ==
    IF s.confidence < MinConfidence THEN [s EXCEPT !.signal = "HOLD"] ELSE s

\* analyzeMarket for a token with last price last and window w; candidate
\* is the verdict before the final gate (targetPrice and stopLoss of the
\* signal, which no caller reads, are left out)
analyzeMarket(last, w) ==
    IF last = NoPrice THEN Hold
    ELSE IF Len(w) < 20 THEN ConfidenceGate(Hold)
    ELSE LET buy == BuyWeight(w)
             sell == SellWeight(w)
         IN ConfidenceGate(
              IF buy > sell /\ buy > Unit \div 2
              THEN [signal |-> "BUY", confidence |-> Min2(MaxConfidence, buy),
                    candidate |-> "BUY"]
              ELSE IF sell > buy /\ sell > Unit \div 2
              THEN [signal |-> "SELL", confidence |-> Min2(MaxConfidence, sell),
                    candidate |-> "SELL"]
              ELSE Hold)

\* ------------------------------------------------------------- Backtester
\* generateSignal(prices, index), index counted from 0
generateSignal(prices, index) ==
    LET lookback == FirstN(prices, index + 1)
        rsi == calculateRSI(lookback, 14)
    IN IF Len(lookback) < 30 THEN [signal |-> "HOLD", confidence |-> 0]
       ELSE IF RsiBelow(rsi, 30) /\ TrendAbove(lookback, -20)
       THEN [signal |-> "BUY",
             confidence |-> Min2(8000, (Unit * (30 * rsi.den - rsi.num))
                                          \div (30 * rsi.den))]
       ELSE IF RsiAbove(rsi, 70) /\ TrendBelow(lookback, 20)
       THEN [signal |-> "SELL",
             confidence |-> Min2(8000, (Unit * (rsi.num - 70 * rsi.den))
                                          \div (30 * rsi.den))]
       ELSE IF VolatilityBelow(lookback, 20, 2) /\ TrendAbove(lookback, 5)
       THEN [signal |-> "BUY", confidence |-> MinConfidence]
       ELSE [signal |-> "HOLD", confidence |-> 0]

\* --------------------------------- MarketDataService driven on its own
\* MarketDataService.init, as SolanaBot.init and SelfFundingBot.init call it
\* with config.priceHistoryLength; the series the price API will serve is
\* fixed here
MarketInit ==
    /\ \A tk \in Tokens : ~priceHistories[tk].set
    /\ \E hl \in HistoryLengths, f \in Feeds :
        /\ priceHistories' =
              [tk \in Tokens |->
                  [set |-> TRUE, prices |-> <<>>, timestamps |-> <<>>,
                   maxLength |-> HistoryLengthOf(hl)]]
        /\ feed' = f
    /\ lastSignal' = NoSignal
    /\ UNCHANGED <<observed, backtestVars, main, tradeVars, fundVars>>

\* fetchPrices, called at time now, when its response has arrived: every
\* token the response prices gets a new last price and a new entry of its
\* window; the next call is one interval later
FetchPrices ==
    /\ \A tk \in Tokens : priceHistories[tk].set
    /\ feed # <<>>
    /\ LET upd == Head(feed) IN
        /\ lastPrices' = [tk \in Tokens |->
                            IF upd[tk] # NoPrice THEN upd[tk] ELSE lastPrices[tk]]
        /\ priceHistories' =
              [tk \in Tokens |->
                  IF upd[tk] # NoPrice
                  THEN updatePriceHistory(priceHistories[tk], upd[tk], now)
                  ELSE priceHistories[tk]]
        /\ observed' =
              [tk \in Tokens |->
                  IF upd[tk] # NoPrice
                  THEN Append(observed[tk], [price |-> upd[tk], timestamp |-> now])
                  ELSE observed[tk]]
    /\ feed' = Tail(feed)
    /\ now' = now + IntervalMs
    /\ lastSignal' = NoSignal
    /\ Quiet
    /\ UNCHANGED <<botVars, ledgerVars, paramVars, riskVars, histVars,
                   backtestVars, main, fundVars>>

\* analyzeMarket(token) returns
AnalyzeMarket(tk) ==
    /\ priceHistories[tk].set
    /\ lastSignal' = [kind |-> "live", token |-> tk,
                      result |-> analyzeMarket(lastPrices[tk],
                                               priceHistories[tk].prices)]
    /\ UNCHANGED <<priceHistories, feed, observed, backtestVars, main,
                   tradeVars, fundVars>>

\* the signal generation of the backtest on the prices the live window of
\* the token holds, at the last of them
GenerateSignal(tk) ==
    /\ priceHistories[tk].prices # <<>>
    /\ lastSignal' = [kind |-> "backtest", token |-> tk,
                      result |-> generateSignal(priceHistories[tk].prices,
                                    Len(priceHistories[tk].prices) - 1)]
    /\ UNCHANGED <<priceHistories, feed, observed, backtestVars, main,
                   tradeVars, fundVars>>

MarketNext ==
    \/ MarketInit
    \/ FetchPrices
    \/ \E tk \in Tokens : AnalyzeMarket(tk)
    \/ \E tk \in Tokens : GenerateSignal(tk)

MarketSpec == Init /\ [][MarketNext]_vars

\* ------------------------------------ fetchPrices and a failing price API
\* What one call of fetchPrices may get: the fetch rejects (network error),
\* the response is not OK, or it is OK and its body prices some tokens.  A
\* body may hold an entry whose price Big does not accept (BadPrice).
BadPrice == -1
RejectedFetch == [kind |-> "rejected", data |-> [tk \in Tokens |-> NoPrice]]
ResponseData ==
    {d \in [Tokens -> {NoPrice, BadPrice, 7, 100}] :
        /\ d["SOL"] \in {NoPrice, BadPrice, 100}
        /\ d["JUP"] \in {NoPrice, BadPrice, 7}}
\* the body of a response that is not OK may well hold prices
FullData == [tk \in Tokens |-> IF tk = "SOL" THEN 100 ELSE 7]
Responses ==
    {RejectedFetch, [kind |-> "notOk", data |-> FullData]}
        \cup {[kind |-> "ok", data |-> d] : d \in ResponseData}
ResponseFeeds == SeqsUpTo(Responses, MaxResponses) \ {<<>>}

\* if (response.ok): only then is the body read
ResponseOk_always(r) == r.kind # "rejected"
ResponseOk(r) == r.kind = "ok"

\* the body of the loop over LIQUID_TOKENS for the k-th token: a missing
\* entry is skipped, Big(priceInfo.price) throws on a malformed one and
\* the catch ends the loop, any other price is stored
RECURSIVE StorePrices(_, _, _)
StorePrices(st, d, k) ==
    IF k > Len(TokenOrder) THEN st
    ELSE LET tk == TokenOrder[k] IN
         IF d[tk] = NoPrice THEN StorePrices(st, d, k + 1)
         ELSE IF d[tk] = BadPrice THEN st
         ELSE StorePrices(
                [lastPrices |-> [st.lastPrices EXCEPT ![tk] = d[tk]],
                 priceHistories |->
                    [st.priceHistories EXCEPT
                        ![tk] = updatePriceHistory(@, d[tk], st.now)],
                 now |-> st.now],
                d, k + 1)

\* fetchPrices with the response r, called at time t
fetchPrices(r, lp, ph, t) ==
    IF ResponseOk(r)
    THEN StorePrices([lastPrices |-> lp, priceHistories |-> ph, now |-> t],
                     r.data, 1)
    ELSE [lastPrices |-> lp, priceHistories |-> ph, now |-> t]

\* MarketDataService.init; the responses the price API will give are fixed
\* here
FetchInit ==
    /\ \A tk \in Tokens : ~priceHistories[tk].set
    /\ \E hl \in HistoryLengths, f \in ResponseFeeds :
        /\ priceHistories' =
              [tk \in Tokens |->
                  [set |-> TRUE, prices |-> <<>>, timestamps |-> <<>>,
                   maxLength |-> HistoryLengthOf(hl)]]
        /\ feed' = f
    /\ UNCHANGED <<observed, lastSignal, backtestVars, main, tradeVars,
                   fundVars>>

\* one call of fetchPrices from its start to its return
FetchPricesReturns ==
    /\ \A tk \in Tokens : priceHistories[tk].set
    /\ feed # <<>>
    /\ LET out == fetchPrices(Head(feed), lastPrices, priceHistories, now) IN
        /\ lastPrices' = out.lastPrices
        /\ priceHistories' = out.priceHistories
    /\ feed' = Tail(feed)
    /\ now' = now + IntervalMs
    /\ lastSignal' = [kind |-> "fetch", response |-> Head(feed)]
    /\ Quiet
    /\ UNCHANGED <<botVars, ledgerVars, paramVars, riskVars, histVars,
                   observed, backtestVars, main, fundVars>>

FetchNext ==
    \/ FetchInit
    \/ FetchPricesReturns

FetchSpec == Init /\ [][FetchNext]_vars


\* --------------------------------------- the indicators called one by one
\* What a call of an indicator gives back: null, a value (the fraction
\* num / den), or the error Big throws for a division by zero.
NoValue == [kind |-> "null", num |-> 0, den |-> 1]
DivisionByZero == [kind |-> "threw", num |-> 0, den |-> 1]
Value(num, den) == [kind |-> "value", num |-> num, den |-> den]

\* x.div(y): Big throws when y is zero
Div(num, den) == IF den = 0 THEN DivisionByZero ELSE Value(num, den)

calculateSMA(w, n) ==
    IF Len(w) < n THEN NoValue ELSE Value(SeqSum(LastN(w, n)), n)

EMAReturn(w, n) ==
    IF Len(w) < n THEN NoValue ELSE Value(calculateEMA(w, n), Unit)

RSIReturn(w, n) ==
    IF Len(w) < n + 1 THEN NoValue
    ELSE Value(calculateRSI(w, n).num, calculateRSI(w, n).den)

\* variance.sqrt().div(mean).mul(100), in Unit
calculateVolatility(w, n) ==
    IF Len(w) < n THEN NoValue
    ELSE Div(Isqrt(Spread(w, n) * 10000) * Unit, SeqSum(LastN(w, n)))

\* currentPrice.sub(pastPrice).div(pastPrice).mul(100)
calculateMomentum(w, n) ==
    IF Len(w) < n + 1 THEN NoValue
    ELSE Div((w[Len(w)] - w[Len(w) - n]) * 100, w[Len(w) - n])

\* %K of calculateStochastic
\* if (history.prices.length < periods + 3) return null
StochasticNeeds(n) == n + 3
calculateStochastic(w, n) ==
    IF Len(w) < StochasticNeeds(n) THEN NoValue
    ELSE LET q == LastN(w, n)
             range == SeqMax(q) - SeqMin(q)
         IN IF range = 0 THEN Value(50, 1)
            ELSE Value((q[n] - SeqMin(q)) * 100, range)

Indicators == {"SMA", "EMA", "RSI", "volatility", "momentum", "stochastic"}
Periods == {2, 3}
IndicatorPrices == {0, 100, 101}
Windows == SeqsUpTo(IndicatorPrices, MaxWindow)

IndicatorReturn(name, w, n) ==
    CASE name = "SMA" -> calculateSMA(w, n)
      [] name = "EMA" -> EMAReturn(w, n)
      [] name = "RSI" -> RSIReturn(w, n)
      [] name = "volatility" -> calculateVolatility(w, n)
      [] name = "momentum" -> calculateMomentum(w, n)
      [] name = "stochastic" -> calculateStochastic(w, n)

\* the service after init and some fetches: SOL's window holds w
IndicatorInit ==
    /\ now = StartTime
    /\ config = NoConfig
    /\ isRunning = FALSE
    /\ intervalId = FALSE
    /\ timers = 0
    /\ cycleCount = 0
    /\ thr = [p \in Procs |-> IdleThr]
    /\ InitLedger
    /\ InitRisk
    /\ ticks = 0
    /\ lastStatus = NoStatus
    /\ recorded = <<>>
    /\ lastLossClose = 0
    /\ lastCycle = NoCycle
    /\ lastOp = NoOp
    /\ InitFund
    /\ feed = <<>>
    /\ observed = [tk \in Tokens |-> <<>>]
    /\ lastSignal = NoSignal
    /\ candles = [tk \in Tokens |-> <<>>]
    /\ btResult = NoBacktest
    /\ sfBacktest = NoSfBacktest
    /\ main = NotStarted
    /\ \E w \in Windows :
        /\ priceHistories =
              [tk \in Tokens |->
                  [set |-> TRUE,
                   prices |-> IF tk = "SOL" THEN w ELSE <<>>,
                   timestamps |->
                      IF tk = "SOL"
                      THEN [i \in 1..Len(w) |->
                              StartTime - IntervalMs * (Len(w) - i + 1)]
                      ELSE <<>>,
                   maxLength |-> DefaultHistoryLength]]
        /\ lastPrices =
              [tk \in Tokens |->
                  IF tk = "SOL" /\ w # <<>> THEN w[Len(w)] ELSE NoPrice]

\* one indicator of the token is called with a period and returns
CallIndicator(tk, name, n) ==
    /\ priceHistories[tk].set
    /\ lastSignal' = [kind |-> "indicator", token |-> tk, name |-> name,
                      period |-> n,
                      result |-> IndicatorReturn(name, priceHistories[tk].prices, n)]
    /\ UNCHANGED <<priceHistories, feed, observed, backtestVars, main,
                   tradeVars, fundVars>>

IndicatorNext ==
    \E name \in Indicators, n \in Periods : CallIndicator("SOL", name, n)

IndicatorSpec == IndicatorInit /\ [][IndicatorNext]_vars


\* ------------------------------------------------- Backtester.runBacktest
\* Amounts are whole cents.  Entry and exit prices carry the slippage and
\* are counted in 1/10000 of the price unit of the candles (PriceUnit);
\* slippagePercent and tradingFeePercent are counted in 1/100 of a percent.
\* The quotient of the gross profit is rounded down to the cent.
PriceUnit == 10000
MinCandles == 50
FirstCandle == 30
CandleMs == 300000

\* candles of 5 minutes with the closes of q
CandlesOf(q) == [i \in 1..Len(q) |-> [timestamp |-> i * CandleMs, close |-> q[i]]]
Closes(cs) == [i \in 1..Len(cs) |-> cs[i].close]

\* the series the simulator is run on: constant closes (one series is one
\* candle too short), a dip that is bought and then rises to the
\* take-profit, a dip that is bought and then falls to the stop-loss, and a
\* dip at the last candle
CandleSeries ==
    {CandlesOf(Flat(100, n)) : n \in {MinCandles - 1, MaxCandles}}
    \cup {CandlesOf(Flat(100, 35) \o <<99, 106>> \o Flat(106, MaxCandles - 37)),
          CandlesOf(Flat(100, 35) \o <<99, 90>> \o Flat(90, MaxCandles - 37)),
          CandlesOf(Flat(100, MaxCandles - 1) \o <<99>>)}

BacktestConfigs ==
    {[initialCapital |-> cap, positionSizePercent |-> 30,
      takeProfitPercent |-> 5, stopLossPercent |-> 3,
      slippagePercent |-> s, tradingFeePercent |-> f]
        : cap \in {0, 10000}, s \in {0, 100}, f \in {0, 100}}

\* the configuration SelfFundingBot.runBacktest builds from its own
SfBacktestConfigs ==
    {[initialCapital |-> cap, positionSizePercent |-> 30,
      takeProfitPercent |-> 5, stopLossPercent |-> 3,
      slippagePercent |-> 10, tradingFeePercent |-> 10]
        : cap \in {0, 10000}}

NoPosition == [open |-> FALSE, entryPrice |-> 0, size |-> 0, entryIndex |-> 0]

\* the locals of runBacktest before the loop; opened counts the positions
\* opened, maxOpen is the largest number of them not yet recorded as a
\* trade, forced tells that the position was closed after the loop,
\* capitals lists the value of capital at the start and after each of its
\* assignments
BacktestStart(cfg) ==
    [capital |-> cfg.initialCapital, position |-> NoPosition, trades |-> <<>>,
     maxCapital |-> cfg.initialCapital, maxDrawdown |-> 0,
     opened |-> 0, maxOpen |-> 0, forced |-> FALSE, threw |-> FALSE,
     capitals |-> <<cfg.initialCapital>>]

\* pnlPercent of the open position at a close, compared with x percent
PnlPercentAtLeast(pos, close, x) ==
    (close * PriceUnit - pos.entryPrice) * 100 >= x * pos.entryPrice
PnlPercentAtMost(pos, close, x) ==
    (close * PriceUnit - pos.entryPrice) * 100 <= x * pos.entryPrice

\* the take-profit, stop-loss and final branches: the position is sold at
\* the close less the slippage and recorded as one trade
SellPosition(st, cfg, candle, index) ==
    LET pos == st.position
        exitPrice == candle.close * (PriceUnit - cfg.slippagePercent)
        grossPnl == (pos.size * (exitPrice - pos.entryPrice)) \div pos.entryPrice
        fee == (pos.size * cfg.tradingFeePercent) \div PriceUnit
        netPnl == grossPnl - fee
    IN [st EXCEPT
          !.capital = @ + netPnl,
          !.capitals = Append(@, st.capital + netPnl),
          !.trades = Append(@, [timestamp |-> candle.timestamp,
                                entryPrice |-> pos.entryPrice,
                                exitPrice |-> exitPrice,
                                size |-> pos.size, pnl |-> netPnl,
                                holdingPeriod |-> index - pos.entryIndex]),
          !.position = NoPosition]

\* if (position): take profit, else stop loss
CheckPosition(st, cfg, candle, index) ==
    IF ~st.position.open THEN st
    ELSE IF PnlPercentAtLeast(st.position, candle.close, cfg.takeProfitPercent)
    THEN SellPosition(st, cfg, candle, index)
    ELSE IF PnlPercentAtMost(st.position, candle.close, -cfg.stopLossPercent)
    THEN SellPosition(st, cfg, candle, index)
    ELSE st

\* if (!position): a BUY signal with a confidence of 0.6 or more opens one
OpenOnSignal(st, cfg, prices, candle, index) ==
    LET sig == generateSignal(prices, index)
        positionSize == (st.capital * cfg.positionSizePercent) \div 100
        fee == (positionSize * cfg.tradingFeePercent) \div PriceUnit
    IN IF sig.signal = "BUY" /\ sig.confidence >= MinConfidence
       THEN [st EXCEPT
               !.capital = @ - fee,
               !.capitals = Append(@, st.capital - fee),
               !.position = [open |-> TRUE,
                             entryPrice |-> candle.close
                                 * (PriceUnit + cfg.slippagePercent),
                             size |-> positionSize, entryIndex |-> index],
               !.opened = @ + 1]
       ELSE st
OpenPosition(st, cfg, prices, candle, index) ==
    IF st.position.open THEN st
    ELSE OpenOnSignal(st, cfg, prices, candle, index)

\* the drawdown of the candle, in 1/100 of a percent; Big throws on the
\* division when maxCapital is 0
TrackDrawdown(st) ==
    LET maxCapital == IF st.capital > st.maxCapital THEN st.capital
                      ELSE st.maxCapital
    IN IF maxCapital = 0 THEN [st EXCEPT !.threw = TRUE]
       ELSE LET currentDrawdown ==
                    ((maxCapital - st.capital) * 10000) \div maxCapital
            IN [st EXCEPT !.maxCapital = maxCapital,
                          !.maxDrawdown = IF currentDrawdown > @
                                          THEN currentDrawdown ELSE @]

\* one pass of the loop, at the candle of index i counted from 0
BacktestCandle(st, cfg, cs, i) ==
    LET checked == CheckPosition(st, cfg, cs[i + 1], i)
        opened == OpenPosition(checked, cfg, Closes(cs), cs[i + 1], i)
        tracked == TrackDrawdown(opened)
        unrecorded == tracked.opened - Len(tracked.trades)
    IN [tracked EXCEPT !.maxOpen = IF unrecorded > @ THEN unrecorded ELSE @]

RECURSIVE BacktestLoop(_, _, _, _)
BacktestLoop(st, cfg, cs, i) ==
    IF st.threw \/ i >= Len(cs) THEN st
    ELSE BacktestLoop(BacktestCandle(st, cfg, cs, i), cfg, cs, i + 1)

\* close any remaining position at the last price
CloseRemaining_none(st, cfg, cs) == st
CloseRemaining(st, cfg, cs) ==
    IF st.threw \/ ~st.position.open THEN st
    ELSE [SellPosition(st, cfg, cs[Len(cs)], Len(cs) - 1)
            EXCEPT !.forced = TRUE]

BacktestThrew == [kind |-> "threw"]

\* runBacktest(token, config) on the candles stored for the token
runBacktest(cs, cfg) ==
    IF Len(cs) < MinCandles THEN BacktestThrew
    ELSE LET st == CloseRemaining(
                      BacktestLoop(BacktestStart(cfg), cfg, cs,
                                   FirstCandle),
                      cfg, cs)
         IN IF st.threw THEN BacktestThrew
            ELSE [kind |-> "result",
                  initialCapital |-> cfg.initialCapital,
                  finalCapital |-> st.capital,
                  totalTrades |-> Len(st.trades),
                  trades |-> st.trades,
                  maxDrawdown |-> st.maxDrawdown,
                  opened |-> st.opened, maxOpen |-> st.maxOpen,
                  forced |-> st.forced, position |-> st.position,
                  capitals |-> st.capitals]

\* ------------------------------------------- the simulator driven on its own
\* a live state: MarketDataService.init and the fetches of the prices q, one
\* interval apart, the last of them one interval before StartTime
LivePrices == <<100, 101>>
RECURSIVE LiveHistory(_)
LiveHistory(q) ==
    IF q = <<>>
    THEN [set |-> TRUE, prices |-> <<>>, timestamps |-> <<>>,
          maxLength |-> DefaultHistoryLength]
    ELSE updatePriceHistory(LiveHistory(SubSeq(q, 1, Len(q) - 1)), q[Len(q)],
                            StartTime - IntervalMs * (Len(LivePrices) - Len(q) + 1))
BacktestInit ==
    /\ now = StartTime
    /\ config = NoConfig
    /\ isRunning = FALSE
    /\ intervalId = FALSE
    /\ timers = 0
    /\ cycleCount = 0
    /\ thr = [p \in Procs |-> IdleThr]
    /\ InitLedger
    /\ InitRisk
    /\ ticks = 0
    /\ lastStatus = NoStatus
    /\ recorded = <<>>
    /\ lastLossClose = 0
    /\ lastCycle = NoCycle
    /\ lastOp = NoOp
    /\ InitFund
    /\ priceHistories = [tk \in Tokens |-> LiveHistory(LivePrices)]
    /\ lastPrices = [tk \in Tokens |-> LivePrices[Len(LivePrices)]]
    /\ observed = [tk \in Tokens |->
                      [i \in 1..Len(LivePrices) |->
                          [price |-> LiveHistory(LivePrices).prices[i],
                           timestamp |-> LiveHistory(LivePrices).timestamps[i]]]]
    /\ feed = <<>>
    /\ lastSignal = NoSignal
    /\ candles = [tk \in Tokens |-> <<>>]
    /\ btResult = NoBacktest
    /\ sfBacktest = NoSfBacktest
    /\ main = NotStarted

\* Backtester.loadHistoricalData(token, candles)
StoreCandles_live(tk, cs) ==
    /\ candles' = [candles EXCEPT ![tk] = cs]
    /\ priceHistories' = [priceHistories EXCEPT ![tk].prices = Closes(cs)]
StoreCandles(tk, cs) ==
    /\ candles' = [candles EXCEPT ![tk] = cs]
    /\ UNCHANGED priceHistories

LoadHistoricalData(tk) ==
    /\ \E cs \in CandleSeries : StoreCandles(tk, cs)
    /\ UNCHANGED <<feed, observed, lastSignal, btResult, sfBacktest, main,
                   tradeVars, fundVars>>

\* Backtester.runBacktest(token, config), from the call to the settled
\* promise: the function has no await
RunBacktest(tk) ==
    /\ \E cfg \in BacktestConfigs :
          btResult' = [token |-> tk, config |-> cfg, input |-> candles[tk],
                       out |-> runBacktest(candles[tk], cfg)]
    /\ UNCHANGED <<marketVars, candles, sfBacktest, main, tradeVars, fundVars>>

\* SelfFundingBot.runBacktest: for each token in turn, generateSyntheticData
\* replaces the candles of the token by a random walk (any series of the
\* model), runBacktest runs on them, and the caller awaits its promise
SfBacktestToken(k, cfg, results) ==
    \E cs \in CandleSeries :
        /\ StoreCandles(TokenOrder[k], cs)
        /\ sfBacktest' = [pc |-> "awaiting", token |-> k, config |-> cfg,
                          results |-> results,
                          pending |-> runBacktest(cs, cfg).kind]

SfRunBacktest ==
    /\ sfBot.config.set
    /\ sfBacktest.pc # "awaiting"
    /\ \E cfg \in SfBacktestConfigs : SfBacktestToken(1, cfg, <<>>)
    /\ UNCHANGED <<feed, observed, lastSignal, btResult, main, tradeVars,
                   fundVars>>

\* the awaited promise settles: a rejection leaves runBacktest of the bot,
\* a result is kept and the next token follows
SfBacktestReturn ==
    /\ sfBacktest.pc = "awaiting"
    /\ IF sfBacktest.pending = "threw"
       THEN /\ sfBacktest' = [sfBacktest EXCEPT !.pc = "threw"]
            /\ UNCHANGED <<candles, priceHistories>>
       ELSE IF sfBacktest.token < Len(TokenOrder)
       THEN SfBacktestToken(sfBacktest.token + 1, sfBacktest.config,
                            Append(sfBacktest.results, sfBacktest.pending))
       ELSE /\ sfBacktest' = [sfBacktest EXCEPT
                                !.pc = "returned",
                                !.results = Append(@, sfBacktest.pending)]
            /\ UNCHANGED <<candles, priceHistories>>
    /\ UNCHANGED <<feed, observed, lastSignal, btResult, main, tradeVars,
                   fundVars>>

\* the simulator with the series and configurations a caller hands it
BacktestNext ==
    \/ \E tk \in Tokens : LoadHistoricalData(tk)
    \/ \E tk \in Tokens : RunBacktest(tk)

BacktestSpec == BacktestInit /\ [][BacktestNext]_vars

\* the simulator as SelfFundingBot runs it
SelfBacktestNext ==
    \/ FundInit
    \/ SfRunBacktest
    \/ SfBacktestReturn

SelfBacktestSpec == BacktestInit /\ [][SelfBacktestNext]_vars


\* -------------------------------------------------------------- main
\* The entry point: loadConfigFromEnv, validateConfig, construction of the
\* services, bot.init and bot.start.  main.pc is the await main() is at.
BaseEnv ==
    [privateKey |-> TRUE, rpcEndpoint |-> TRUE, initialCapital |-> 10000,
     slippageBps |-> 50, intervalMs |-> 5000, maxPositions |-> 1,
     positionSizePercent |-> [num |-> 30, den |-> 1], minTradeSize |-> 500,
     takeProfitPercent |-> 5, stopLossPercent |-> 3,
     maxDrawdownPercent |-> 10, maxDailyLossPercent |-> 5,
     priceHistoryLength |-> 0]

\* what loadConfigFromEnv may return: the defaults with a key and an
\* endpoint, and the same with one or two settings changed
EnvConfigs ==
    {BaseEnv,
     [BaseEnv EXCEPT !.initialCapital = 0],
     [BaseEnv EXCEPT !.privateKey = FALSE],
     [BaseEnv EXCEPT !.rpcEndpoint = FALSE],
     [BaseEnv EXCEPT !.privateKey = FALSE, !.rpcEndpoint = FALSE],
     [BaseEnv EXCEPT !.initialCapital = -1],
     [BaseEnv EXCEPT !.slippageBps = -1],
     [BaseEnv EXCEPT !.slippageBps = 1001],
     [BaseEnv EXCEPT !.intervalMs = 999],
     [BaseEnv EXCEPT !.maxPositions = 0],
     [BaseEnv EXCEPT !.positionSizePercent = [num |-> 0, den |-> 1]],
     [BaseEnv EXCEPT !.positionSizePercent = [num |-> 101, den |-> 1]],
     [BaseEnv EXCEPT !.takeProfitPercent = 0],
     [BaseEnv EXCEPT !.stopLossPercent = 0],
     [BaseEnv EXCEPT !.maxDrawdownPercent = 0],
     [BaseEnv EXCEPT !.maxDrawdownPercent = 101],
     [BaseEnv EXCEPT !.maxDailyLossPercent = 0],
     [BaseEnv EXCEPT !.maxDailyLossPercent = 101, !.maxPositions = 0]}

\* validateConfig: the errors it returns, as a set
validateConfig(cfg) ==
    (IF ~cfg.privateKey THEN {"SOLANA_PRIVATE_KEY"} ELSE {})
    \cup (IF ~cfg.rpcEndpoint THEN {"SOLANA_RPC_ENDPOINT"} ELSE {})
    \cup (IF cfg.initialCapital < 0 THEN {"INITIAL_CAPITAL"} ELSE {})
    \cup (IF cfg.slippageBps < 0 \/ cfg.slippageBps > 1000
          THEN {"SLIPPAGE_BPS"} ELSE {})
    \cup (IF cfg.intervalMs < 1000 THEN {"INTERVAL_MS"} ELSE {})
    \cup (IF cfg.maxPositions < 1 THEN {"MAX_POSITIONS"} ELSE {})
    \cup (IF cfg.positionSizePercent.num <= 0
             \/ cfg.positionSizePercent.num > 100 * cfg.positionSizePercent.den
          THEN {"POSITION_SIZE_PERCENT"} ELSE {})
    \cup (IF cfg.takeProfitPercent <= 0 THEN {"TAKE_PROFIT_PERCENT"} ELSE {})
    \cup (IF cfg.stopLossPercent <= 0 THEN {"STOP_LOSS_PERCENT"} ELSE {})
    \cup (IF cfg.maxDrawdownPercent <= 0 \/ cfg.maxDrawdownPercent > 100
          THEN {"MAX_DRAWDOWN_PERCENT"} ELSE {})
    \cup (IF cfg.maxDailyLossPercent <= 0 \/ cfg.maxDailyLossPercent > 100
          THEN {"MAX_DAILY_LOSS_PERCENT"} ELSE {})

\* the part of the configuration the bot and its services read
BotConfigOf(env) ==
    [set |-> TRUE, initialCapital |-> env.initialCapital,
     maxPositions |-> env.maxPositions,
     positionSizePercent |-> env.positionSizePercent,
     minTradeSize |-> env.minTradeSize,
     takeProfitPercent |-> env.takeProfitPercent,
     stopLossPercent |-> env.stopLossPercent,
     maxDrawdownPercent |-> env.maxDrawdownPercent,
     maxDailyLossPercent |-> env.maxDailyLossPercent,
     priceHistoryLength |-> env.priceHistoryLength]

Exited(m) == [m EXCEPT !.pc = "exited"]

\* if (errors.length > 0) process.exit(1); otherwise main goes on to
\* construct the services and call bot.init
AfterValidation_goesOn(env) ==
    [pc |-> "solanaInit", errors |-> validateConfig(env), healthy |-> TRUE]
AfterValidation(env) ==
    IF validateConfig(env) # {}
    THEN [pc |-> "exited", errors |-> validateConfig(env), healthy |-> TRUE]
    ELSE [pc |-> "solanaInit", errors |-> {}, healthy |-> TRUE]

\* main from its entry to process.exit(1) or to the first await of bot.init,
\* which has stored the configuration by then
MainValidate ==
    /\ main.pc = "load"
    /\ \E env \in EnvConfigs :
        /\ main' = AfterValidation(env)
        /\ config' = IF AfterValidation(env).pc = "exited" THEN config
                      ELSE BotConfigOf(env)
    /\ UNCHANGED <<now, isRunning, intervalId, timers, cycleCount, thr,
                   ledgerVars, paramVars, lastPrices, riskVars, histVars>>
    /\ Quiet
    /\ UNCHANGED <<marketVars, backtestVars, fundVars>>

\* solanaService.init returns or throws (a key that cannot be decoded);
\* then the other services are initialised, setLimits and setParameters are
\* called and bot.init awaits the health check
MainSolanaInitReturn ==
    /\ main.pc = "solanaInit"
    /\ \E ok \in BOOLEAN :
        IF ok
        THEN /\ main' = [main EXCEPT !.pc = "health"]
             /\ priceHistories' =
                   [tk \in Tokens |->
                       [set |-> TRUE, prices |-> <<>>, timestamps |-> <<>>,
                        maxLength |-> HistoryLengthOf(config.priceHistoryLength)]]
             /\ limits' = [limits EXCEPT
                             !.initialCapital = config.initialCapital,
                             !.maxDrawdownPercent = config.maxDrawdownPercent,
                             !.maxDailyLossPercent = config.maxDailyLossPercent]
             /\ maxPositions' = config.maxPositions
             /\ positionSizePercent' = config.positionSizePercent
             /\ takeProfitPercent' = config.takeProfitPercent
             /\ stopLossPercent' = config.stopLossPercent
             /\ minTradeSize' = config.minTradeSize
        ELSE /\ main' = Exited(main)
             /\ UNCHANGED <<priceHistories, limits, paramVars>>
    /\ UNCHANGED <<now, config, isRunning, intervalId, timers, cycleCount,
                   thr, ledgerVars, lastPrices, tradeTimestamps, dailyPnl,
                   dailyStartTime, lastLossTime, isPaused, histVars>>
    /\ Quiet
    /\ UNCHANGED <<feed, observed, lastSignal, backtestVars, fundVars>>

\* the health check returns: a failed one throws out of bot.init into the
\* catch of main, which exits
MainHealthReturn ==
    /\ main.pc = "health"
    /\ \E healthy \in BOOLEAN :
          main' = IF healthy THEN [main EXCEPT !.pc = "balances"]
                  ELSE [Exited(main) EXCEPT !.healthy = FALSE]
    /\ UNCHANGED <<tradeVars, marketVars, backtestVars, fundVars>>

\* the initial balances return and bot.init with them; main calls
\* bot.start, which runs the first cycle up to its price fetch.  A balance
\* that cannot be read throws into the catch of main.
MainBalancesReturn ==
    /\ main.pc = "balances"
    /\ \E ok \in BOOLEAN :
        IF ok
        THEN /\ main' = [main EXCEPT !.pc = "running"]
             /\ isRunning' = TRUE
             /\ \E c \in Cycles : BeginCycle(c, TRUE)
        ELSE /\ main' = Exited(main)
             /\ UNCHANGED <<isRunning, cycleCount, thr>>
    /\ UNCHANGED <<now, config, intervalId, timers, ledgerVars, paramVars,
                   lastPrices, riskVars, histVars>>
    /\ Quiet
    /\ UNCHANGED <<marketVars, backtestVars, fundVars>>

MainNext ==
    \/ MainValidate
    \/ MainSolanaInitReturn
    \/ MainHealthReturn
    \/ MainBalancesReturn
    \/ Tick
    \/ \E c \in Cycles : FetchReturn(c)
    \/ \E c \in Cycles : RiskReturn(c)
    \/ \E p \in Procs : CloseQuoteReturn(p)
    \/ \E p \in Procs : CloseSwapReturn(p)
    \/ \E c \in Cycles : OpenQuoteReturn(c)
    \/ \E c \in Cycles : OpenSwapReturn(c)
    \/ Advance

MainSpec == Init /\ [][MainNext]_vars


\* ------------------------------------------------ errors inside a cycle
\* The bot when calls of its cycle may throw: the balance read of checkRisk
\* rejects, or Big cannot parse the priceImpactPct of a buy quote.  Neither
\* checkRisk nor executeSignal catches, so the error reaches the catch of
\* runCycle, which logs it; runCycle returns normally to its caller.
Caught_propagates(c, t, o) ==
    /\ objs' = o
    /\ thr' = [thr EXCEPT ![c] = IdleThr]
    /\ lastCycle' = [kind |-> "done", threw |-> TRUE, allowed |-> t.allowed,
                     managed |-> t.managed, opened |-> t.opened]
    /\ UNCHANGED <<intervalId, timers>>
Caught(c, t, o) == Finish(c, t, o, TRUE)

\* checkRisk: getUsdcBalance rejects, before anything else of checkRisk ran
RiskRejects(c) ==
    /\ thr[c].pc = "risk"
    /\ Caught(c, thr[c], objs)
    /\ UNCHANGED <<now, config, isRunning, cycleCount, positions,
                   closedPositions, stats, paramVars, lastPrices, riskVars,
                   histVars>>
    /\ lastStatus' = NoStatus
    /\ lastOp' = NoOp
    /\ UNCHANGED <<fundVars, sideVars>>

\* openLongPosition, called by the signal loop of a cycle: the quote
\* arrives with a priceImpactPct that Big rejects
OpenQuoteMalformed(c) ==
    /\ thr[c].pc = "openQuote"
    /\ ~thr[c].direct
    /\ Caught(c, thr[c], objs)
    /\ UNCHANGED <<now, config, isRunning, cycleCount, positions,
                   closedPositions, stats, paramVars, lastPrices, riskVars,
                   histVars>>
    /\ lastStatus' = NoStatus
    /\ lastOp' = NoOp
    /\ UNCHANGED <<fundVars, sideVars>>

\* (the clock stands still: no cooldown or hour elapses between the cycles)
ErrorNext ==
    \/ BotInit
    \/ Start
    \/ Tick
    \/ \E c \in Cycles : FetchReturn(c)
    \/ \E c \in Cycles : RiskReturn(c)
    \/ \E c \in Cycles : RiskRejects(c)
    \/ \E p \in Procs : CloseQuoteReturn(p)
    \/ \E p \in Procs : CloseSwapReturn(p)
    \/ \E c \in Cycles : OpenQuoteReturn(c)
    \/ \E c \in Cycles : OpenQuoteMalformed(c)
    \/ \E c \in Cycles : OpenSwapReturn(c)

ErrorSpec == Init /\ [][ErrorNext]_vars


\* ------------------------------------------------------------ properties

\* C1: for each loop at most one cycle is in flight at any time: a timer
\* tick never starts a cycle while the previous one is still awaiting.
C1_OneCycleInFlight == Cardinality(InFlight) <= 1

\* C2: no two open positions of the ledger refer to the same instrument.
C2_OnePositionPerInstrument ==
    \A i, j \in 1..Len(positions) :
        i # j => objs[positions[i].obj].token # objs[positions[j].obj].token

\* C3: the number of open positions never exceeds maxPositions.
C3_MaxPositions == Len(positions) <= maxPositions

\* C4: a cycle whose risk evaluation returned not-allowed opens no position
\* (it never reaches the buy) and still runs the management pass.
C4_BlockedCycleOpensNothing ==
    /\ \A c \in Cycles :
          thr[c].pc \in {"openQuote", "openSwap"} => thr[c].allowed
    /\ (lastCycle.kind = "done" /\ ~lastCycle.threw /\ ~lastCycle.allowed)
          => (~lastCycle.opened /\ lastCycle.managed)

\* a blocked cycle has ended after managing a ledger in which a position
\* has been closed
C4_Witness ==
    /\ lastCycle.kind = "done" /\ ~lastCycle.threw /\ ~lastCycle.allowed
    /\ lastCycle.managed /\ ~lastCycle.opened
    /\ closedPositions # <<>>

\* C5: every risk evaluation made less than cooldownAfterLoss seconds after
\* a position was closed with negative realized PnL denies trading.
C5_CooldownAfterLosingClose ==
    (/\ lastStatus.kind = "status"
     /\ lastStatus.lossClose > 0
     /\ lastStatus.at - lastStatus.lossClose
            < lastStatus.limits.cooldownAfterLoss * 1000)
        => ~lastStatus.isTradeAllowed

\* C6: checkRisk returns the reason of the first failing check in the order
\* pause, drawdown, daily loss, reserve, trades per hour, cooldown, and
\* allows trading exactly when none of the six fails.
C6_Fails ==
    LET s == lastStatus IN
    <<s.paused,
      s.limits.initialCapital > 0
         /\ (s.limits.initialCapital - s.currentCapital) * 100
               >= s.limits.maxDrawdownPercent * s.limits.initialCapital,
      s.dailyPnl < 0
         /\ Abs(s.dailyPnl) * 100
               >= s.limits.maxDailyLossPercent * s.limits.initialCapital,
      s.usdcBalance < s.limits.minCapitalReserve,
      s.tradesThisHour >= s.limits.maxTradesPerHour,
      s.lastLoss > 0
         /\ s.at - s.lastLoss < s.limits.cooldownAfterLoss * 1000>>
C6_Names == <<"paused", "drawdown", "dailyLoss", "reserve", "rate", "cooldown">>
C6_FirstFailingCheckWins ==
    lastStatus.kind = "status" =>
        /\ lastStatus.isTradeAllowed <=> (\A k \in 1..6 : ~C6_Fails[k])
        /\ lastStatus.isTradeAllowed <=> (lastStatus.reason = "allowed")
        /\ \A k \in 1..6 :
              (lastStatus.reason = C6_Names[k])
                 <=> (C6_Fails[k] /\ \A j \in 1..(k - 1) : ~C6_Fails[j])

\* the reserve check supplies the reason although the rate limit fails too
C6_Witness ==
    /\ lastStatus.kind = "status"
    /\ lastStatus.reason = "reserve"
    /\ C6_Fails[5]

\* C7: whenever (initialCapital - currentCapital) / initialCapital * 100 is
\* at least maxDrawdownPercent, with currentCapital the liquid balance plus
\* the value of the open positions, checkRisk returns not-allowed.
RECURSIVE C7_Value(_)
C7_Value(S) ==
    IF S = {} THEN 0
    ELSE LET k == CHOOSE x \in S : TRUE
         IN (IF lastPrices[objs[k].token] # NoPrice
             THEN objs[k].entryAmount * lastPrices[objs[k].token] ELSE 0)
            + C7_Value(S \ {k})
C7_Capital == lastStatus.usdcBalance + C7_Value(OpenObjs(positions))
C7_DrawdownDenies ==
    (/\ lastStatus.kind # "none"
     /\ limits.initialCapital > 0
     /\ (limits.initialCapital - C7_Capital) * 100
            >= limits.maxDrawdownPercent * limits.initialCapital)
        => (lastStatus.kind = "status" /\ ~lastStatus.isTradeAllowed)

\* the drawdown check denies at exactly the limit, thanks to the value of
\* an open position
C7_Witness ==
    /\ lastStatus.kind = "status"
    /\ lastStatus.reason = "drawdown"
    /\ positions # <<>>
    /\ (limits.initialCapital - C7_Capital) * 100
            = limits.maxDrawdownPercent * limits.initialCapital

\* C8: at every risk evaluation the daily PnL compared with the limit is the
\* sum of the PnLs recorded since the most recent local midnight.
RECURSIVE C8_SumSince(_, _, _)
C8_SumSince(n, since, acc) ==
    IF n = 0 THEN acc
    ELSE C8_SumSince(n - 1, since,
                     acc + (IF recorded[n].t >= since THEN recorded[n].pnl
                            ELSE 0))
C8_DailyPnlSinceMidnight ==
    lastStatus.kind # "none" =>
        lastStatus.dailyPnl
            = C8_SumSince(lastStatus.nrec, DayStart(lastStatus.at), 0)

\* C9: once recordTrade has been called at least maxTradesPerHour times
\* within the trailing hour, checkRisk returns not-allowed whatever the
\* other inputs are.
C9_Recent ==
    {i \in 1..lastStatus.nrec : recorded[i].t > lastStatus.at - HourMs}
C9_RateLimitDenies ==
    (/\ lastStatus.kind # "none"
     /\ Cardinality(C9_Recent) >= lastStatus.limits.maxTradesPerHour)
        => (lastStatus.kind = "status" /\ ~lastStatus.isTradeAllowed)

\* C10: the stop price of an open position never decreases.
C10_StopNeverDecreases ==
    [][\A k \in 1..Len(objs) :
          objs[k].status = "OPEN" => objs'[k].stopLoss >= objs[k].stopLoss]_vars

\* a cycle has ended with an open position whose stop was ratcheted above
\* the stop the present price would give, at a price that calls for a ratchet
C10_Witness ==
    /\ lastCycle.kind = "done"
    /\ \E i \in 1..Len(positions) :
          LET pos == objs[positions[i].obj]
              price == lastPrices[pos.token]
          IN /\ price # NoPrice
             /\ RatchetDue(pos, price)
             /\ ~TargetHit(pos, price)
             /\ pos.stopLoss > TrailingStop(price, stopLossPercent)

\* C11: when opening a position fails at any step (no quote, price impact
\* above 0.5%, or a failed buy), executeSignal returns no position and the
\* step leaves the open set, the position objects, the closed history and
\* the statistics (volume included) as they were.
C11_Failed(op) ==
    \/ ~op.quote.ok
    \/ Abs(op.quote.impact) > MaxImpactPerMille
    \/ ~op.result.ok
C11_FailedOpenLeavesLedger ==
    [][(lastOp'.kind = "open" /\ C11_Failed(lastOp'))
          => /\ lastOp'.returned = 0
             /\ positions' = positions
             /\ objs' = objs
             /\ closedPositions' = closedPositions
             /\ stats' = stats]_vars

\* a buy has failed at the swap, after an acceptable quote, on a ledger that
\* already holds a position
C11_Witness ==
    /\ lastOp.kind = "open"
    /\ lastOp.quote.ok /\ ~lastOp.result.ok
    /\ lastOp.returned = 0
    /\ positions # <<>>
    /\ stats.volume > 0

\* C12: when the sell of a close fails (no quote or failed execution), the
\* position stays in the open set with status OPEN, the closed history and
\* the statistics are unchanged, and an event of severity error is logged.
C12_IsOpen(ps, o, k) ==
    o[k].status = "OPEN" /\ \E i \in 1..Len(ps) : ps[i].obj = k
C12_FailedCloseKeepsPosition ==
    [][(lastOp'.kind = "close"
        /\ (~lastOp'.quote.ok \/ ~lastOp'.result.ok))
          => /\ positions' = positions
             /\ C12_IsOpen(positions, objs, lastOp'.obj)
                   => C12_IsOpen(positions', objs', lastOp'.obj)
             /\ closedPositions' = closedPositions
             /\ stats' = stats
             /\ lastOp'.log.level = "error"]_vars

\* the swap of a close has failed and the position is still open
C12_Witness ==
    /\ lastOp.kind = "close"
    /\ lastOp.quote.ok /\ ~lastOp.result.ok
    /\ lastOp.log = [level |-> "error", event |-> "CloseSwapFailed"]
    /\ C12_IsOpen(positions, objs, lastOp.obj)

\* C13: when an emergency stop returns, every position that was open when
\* it was called has been closed.
C13_EmergencyStopClosesAll ==
    lastCycle.kind = "emergencyDone" =>
        \A k \in lastCycle.atCall : objs[k].status = "CLOSED"

\* C14: after stop() has returned, and until start() is called again, no
\* new cycle of any loop is started.
C14_NoCycleAfterStop ==
    [][sfHist'.cycles > sfHist.cycles => ~sfHist'.stopped]_vars

\* C15: a management pass closes an open position with a known last price
\* as TAKE_PROFIT if price >= target, otherwise as STOP_LOSS if price <=
\* stop, otherwise leaves it open and raises its stop to price * (1 -
\* stopLoss%) only when the gain exceeds 0.3% and that value is above the
\* present stop; a close whose sell succeeds leaves the position CLOSED at
\* the price the pass saw.  The first part is stated for the pass resumed
\* after any entry cur of the open set, in every reachable ledger.
C15_Decision(pos, price) ==
    IF price * 1000 >= pos.targetPrice THEN "TAKE_PROFIT"
    ELSE IF price * 1000 <= pos.stopLoss THEN "STOP_LOSS"
    ELSE "OPEN"
C15_Stop(pos, price) ==
    IF /\ (price - pos.entryPrice) * 1000 > TrailingGainPerMille * pos.entryPrice
       /\ price * (1000 - stopLossPercent) > pos.stopLoss
    THEN price * (1000 - stopLossPercent)
    ELSE pos.stopLoss
C15_PassFrom(cur) ==
    LET m == ManageScan(positions, objs, lastPrices, stopLossPercent, cur)
    IN \A i \in 1..Len(positions) :
        LET e == positions[i]
            k == e.obj
            price == lastPrices[objs[k].token]
        IN IF e.slot <= cur \/ (m.close # 0 /\ e.slot > m.cursor)
           THEN m.objs[k] = objs[k]
           ELSE IF price = NoPrice
           THEN m.objs[k] = objs[k] /\ m.close # k
           ELSE IF m.close # 0 /\ e.slot = m.cursor
           THEN /\ m.close = k
                /\ m.reason = C15_Decision(objs[k], price)
                /\ m.reason # "OPEN"
                /\ m.price = price
                /\ m.objs[k] = objs[k]
           ELSE /\ C15_Decision(objs[k], price) = "OPEN"
                /\ m.objs[k] = [objs[k] EXCEPT !.stopLoss =
                                                C15_Stop(objs[k], price)]
C15_Decides ==
    \A cur \in {0} \cup {positions[i].slot : i \in 1..Len(positions)} :
        C15_PassFrom(cur)
C15_ManagementPass ==
    /\ C15_Decides
    /\ (lastOp.kind = "close" /\ lastOp.quote.ok /\ lastOp.result.ok)
          => /\ objs[lastOp.obj].status = "CLOSED"
             /\ objs[lastOp.obj].exitPrice = lastOp.price
             /\ \A i \in 1..Len(positions) : positions[i].obj # lastOp.obj

\* a position has just been closed at a price that reached its target while
\* another position, whose price calls for no close, stays open
C15_Witness ==
    /\ lastOp.kind = "close" /\ lastOp.result.ok
    /\ lastOp.reason = "TAKE_PROFIT"
    /\ objs[lastOp.obj].status = "CLOSED"
    /\ objs[lastOp.obj].exitPrice * 1000 >= objs[lastOp.obj].targetPrice
    /\ \E i \in 1..Len(positions) :
          LET pos == objs[positions[i].obj]
          IN /\ lastPrices[pos.token] # NoPrice
             /\ C15_Decision(pos, lastPrices[pos.token]) = "OPEN"

\* C16: a newly opened position records its entry quantity, its committed
\* capital and its entry price from the execute response of the buy: the
\* quantity is outputAmount, the capital inputAmount, and the price the
\* executed one, inputAmount / outputAmount, not the price of the signal.
C16_EntryFromExecution ==
    (lastOp.kind = "open" /\ lastOp.returned # 0) =>
        LET pos == objs[lastOp.returned] IN
        /\ pos.entryAmount = lastOp.result.outputAmount
        /\ pos.usdcSpent = lastOp.result.inputAmount
        /\ pos.entryPrice * lastOp.result.outputAmount
              = lastOp.result.inputAmount

\* C17: executeSignal returns no position and leaves the ledger unchanged
\* whenever the available capital passed to it is below the minimum trade
\* size, whatever positionSizePercent is configured.
C17_BelowMinimumOpensNothing ==
    [][(lastOp'.kind = "open" /\ lastOp'.avail < minTradeSize)
          => /\ lastOp'.returned = 0
             /\ positions' = positions
             /\ objs' = objs
             /\ closedPositions' = closedPositions
             /\ stats' = stats]_vars

\* C18: the trade counters agree with the closed history: totalTrades =
\* winningTrades + losingTrades = the length of the closed history, and
\* winRate = winningTrades / totalTrades, 0 when no trade has closed.
C18_CountersMatchHistory ==
    /\ stats.totalTrades = stats.winningTrades + stats.losingTrades
    /\ stats.totalTrades = Len(closedPositions)
    /\ stats.winRate = IF stats.totalTrades = 0 THEN <<0, 1>>
                       ELSE <<stats.winningTrades, stats.totalTrades>>

\* a winning and a losing trade have closed
C18_Witness ==
    /\ stats.winningTrades = 1
    /\ stats.losingTrades = 1
    /\ Len(closedPositions) = 2
    /\ closedPositions[1] # closedPositions[2]
    /\ stats.winRate = <<1, 2>>

\* C19: netPnl = totalProfit - totalLoss = the sum, over the positions of
\* the closed history, of sell proceeds minus capital committed.
RECURSIVE C19_Sum(_)
C19_Sum(n) ==
    IF n = 0 THEN 0
    ELSE objs[closedPositions[n]].exitAmount
            - objs[closedPositions[n]].usdcSpent + C19_Sum(n - 1)
C19_NetPnlMatchesHistory ==
    /\ stats.netPnl = stats.totalProfit - stats.totalLoss
    /\ stats.netPnl = C19_Sum(Len(closedPositions))

\* C20: maxDrawdown is the minimum of 0 and every value netPnl has taken
\* after a close: it starts at 0, a close lowers it to the new netPnl when
\* that is lower, and nothing else changes it, so it never increases.
C20_MaxDrawdownIsLowestNetPnl ==
    /\ stats.maxDrawdown = 0
    /\ [][/\ stats'.maxDrawdown <= stats.maxDrawdown
          /\ IF stats'.totalTrades # stats.totalTrades
             THEN stats'.maxDrawdown
                     = IF stats'.netPnl < stats.maxDrawdown
                       THEN stats'.netPnl ELSE stats.maxDrawdown
             ELSE stats'.maxDrawdown = stats.maxDrawdown]_vars

\* after a losing close and a winning one netPnl is back at 0 while
\* maxDrawdown keeps the low
C20_Witness ==
    /\ stats.totalTrades = 2
    /\ stats.netPnl = 0
    /\ stats.maxDrawdown < 0

\* C21: the position lifecycle is one-way.  A position of the open set has
\* status OPEN, a position of the closed history has status CLOSED, no
\* position is in both, a CLOSED position never becomes OPEN again, and the
\* closed history only grows: every entry it holds stays in its place with
\* the record it was appended with.
C21_Entries == [i \in 1..Len(closedPositions) |-> objs[closedPositions[i]]]
C21_OneWayLifecycle ==
    /\ [](/\ \A i \in 1..Len(positions) :
                objs[positions[i].obj].status = "OPEN"
          /\ \A j \in 1..Len(closedPositions) :
                objs[closedPositions[j]].status = "CLOSED"
          /\ \A i \in 1..Len(positions), j \in 1..Len(closedPositions) :
                positions[i].obj # closedPositions[j])
    /\ [][/\ \A k \in 1..Len(objs) :
                objs[k].status = "CLOSED" => objs'[k].status = "CLOSED"
          /\ Len(C21_Entries') >= Len(C21_Entries)
          /\ \A i \in 1..Len(C21_Entries) :
                C21_Entries'[i] = C21_Entries[i]]_vars

\* C22: getAvailableCapital returns initialCapital + netPnl - the capital
\* committed to the positions of the open set - minCapitalReserve, or 0
\* when that is negative; it is never negative.
RECURSIVE C22_Committed(_)
C22_Committed(S) ==
    IF S = {} THEN 0
    ELSE LET k == CHOOSE x \in S : TRUE
         IN objs[k].usdcSpent + C22_Committed(S \ {k})
C22_Raw ==
    limits.initialCapital + stats.netPnl - C22_Committed(OpenObjs(positions))
        - limits.minCapitalReserve
C22_AvailableCapital ==
    LET a == getAvailableCapital(positions, objs, stats, limits)
    IN /\ a = IF C22_Raw > 0 THEN C22_Raw ELSE 0
       /\ a >= 0

\* a cycle is opening a second position with the capital the first one
\* left available
C22_Witness ==
    \E c \in Cycles :
        /\ thr[c].pc = "openQuote"
        /\ ~thr[c].direct
        /\ positions # <<>>
        /\ thr[c].avail = getAvailableCapital(positions, objs, stats, limits)
        /\ thr[c].avail > 0
        /\ thr[c].avail = C22_Raw

\* C23: the window of an instrument never holds more than its maximum N of
\* entries and always holds the most recent min(N, count) observations of
\* the instrument in arrival order, each price with its own timestamp.
C23_Recent(tk) ==
    LET n == Min2(priceHistories[tk].maxLength, Len(observed[tk]))
    IN SubSeq(observed[tk], Len(observed[tk]) - n + 1, Len(observed[tk]))
C23_WindowHoldsMostRecent ==
    \A tk \in Tokens :
        priceHistories[tk].set =>
            /\ Len(priceHistories[tk].prices) <= priceHistories[tk].maxLength
            /\ Len(priceHistories[tk].prices) = Len(C23_Recent(tk))
            /\ Len(priceHistories[tk].timestamps) = Len(C23_Recent(tk))
            /\ \A i \in 1..Len(C23_Recent(tk)) :
                /\ priceHistories[tk].prices[i] = C23_Recent(tk)[i].price
                /\ priceHistories[tk].timestamps[i]
                      = C23_Recent(tk)[i].timestamp

\* a window of two entries after three observations at different prices
C23_Witness ==
    /\ priceHistories["SOL"].maxLength = 2
    /\ Len(observed["SOL"]) = 3
    /\ observed["SOL"][1].price # observed["SOL"][3].price
    /\ priceHistories["SOL"].prices
          = <<observed["SOL"][2].price, observed["SOL"][3].price>>

\* C24: on the same prices the signal generation of the backtest returns the
\* verdict and the confidence the live signal generator returns.
C24_BacktestSignalEqualsLive ==
    lastSignal.kind = "backtest" =>
        LET live == analyzeMarket(lastPrices[lastSignal.token],
                                  priceHistories[lastSignal.token].prices)
        IN /\ lastSignal.result.signal = live.signal
           /\ lastSignal.result.confidence = live.confidence

\* C25: a signal analyzeMarket returns as BUY or SELL has a confidence from
\* 0.6 to 0.9, a candidate with a confidence below 0.6 is returned as HOLD,
\* and without a last price the signal is HOLD with confidence 0.
C25_ConfidenceGate ==
    lastSignal.kind = "live" =>
        /\ lastSignal.result.signal \in {"BUY", "SELL"} =>
              /\ lastSignal.result.confidence >= MinConfidence
              /\ lastSignal.result.confidence <= MaxConfidence
        /\ lastSignal.result.confidence < MinConfidence =>
              lastSignal.result.signal = "HOLD"
        /\ lastPrices[lastSignal.token] = NoPrice =>
              /\ lastSignal.result.signal = "HOLD"
              /\ lastSignal.result.confidence = 0

\* a BUY candidate below 0.6 has been returned as HOLD
C25_Witness ==
    /\ lastSignal.kind = "live"
    /\ lastSignal.result.candidate = "BUY"
    /\ lastSignal.result.signal = "HOLD"
    /\ lastSignal.result.confidence > Unit \div 2

\* C26: a backtest on at least 50 candles of one constant close, with a
\* positive initial capital, returns a result with no trade and a final
\* capital equal to the initial capital, whatever the fee and the slippage.
C26_IsFlat(cs) == \A i \in 1..Len(cs) : cs[i].close = cs[1].close
C27_NoPositionLeftOpen ==
    (btResult # NoBacktest /\ btResult.out.kind = "result") =>
        LET out == btResult.out
            last == btResult.input[Len(btResult.input)]
        IN /\ ~out.position.open
           /\ out.maxOpen <= 1
           /\ out.opened = out.totalTrades
           /\ out.totalTrades = Len(out.trades)
           /\ out.forced =>
                /\ out.trades # <<>>
                /\ out.trades[Len(out.trades)].timestamp = last.timestamp
                /\ out.trades[Len(out.trades)].exitPrice
                      = last.close
                          * (PriceUnit - btResult.config.slippagePercent)

\* a run that stopped one position out and sold a second after the loop
C27_Witness ==
    /\ btResult # NoBacktest
    /\ btResult.out.kind = "result"
    /\ btResult.out.forced
    /\ btResult.out.totalTrades = 2
    /\ btResult.out.trades[1].timestamp
          < btResult.input[Len(btResult.input)].timestamp

\* C28: a step of a backtest (one that stores candles or moves
\* SelfFundingBot.runBacktest on, with the run of Backtester.runBacktest in
\* it) leaves the open positions, the closed history, the statistics, the
\* risk state, the live price windows and the last prices unchanged.
C28_BacktestLeavesLiveState ==
    [][(candles' # candles \/ sfBacktest' # sfBacktest)
          => UNCHANGED <<ledgerVars, riskVars, priceHistories, lastPrices>>]_vars

\* SelfFundingBot.runBacktest has returned and the live window is as it was
C28_Witness ==
    /\ sfBacktest.pc = "returned"
    /\ \A tk \in Tokens :
        /\ Len(candles[tk]) >= MinCandles
        /\ priceHistories[tk].prices = LivePrices

\* C29: when validateConfig reports an error the process has exited with no
\* service initialised (no configuration stored in the bot, no price window
\* created, limits and parameters as constructed) and no cycle started; a
\* failed health check at startup has ended the process before the bot was
\* started and before any cycle.
C29_FailFastAtStartup ==
    /\ main.errors # {} =>
          /\ main.pc = "exited"
          /\ config = NoConfig
          /\ \A tk \in Tokens : ~priceHistories[tk].set
          /\ limits = DefaultLimits
          /\ ~isRunning /\ timers = 0 /\ cycleCount = 0
          /\ \A p \in Procs : thr[p].pc = "idle"
    /\ ~main.healthy =>
          /\ main.pc = "exited"
          /\ ~isRunning /\ timers = 0 /\ cycleCount = 0
          /\ \A p \in Procs : thr[p].pc = "idle"

\* the process has exited on two configuration errors
C29_Witness ==
    /\ main.pc = "exited"
    /\ main.errors = {"SOLANA_PRIVATE_KEY", "SOLANA_RPC_ENDPOINT"}

\* the process has exited on the failed health check of a valid configuration
C29_WitnessHealth ==
    /\ main.pc = "exited"
    /\ ~main.healthy
    /\ config.set

\* C30: a cycle in which a call threw has ended like any other cycle: the
\* bot is still running, its interval timer exists (start() went on to
\* create it when the failed cycle was the first one), and the timer can
\* start the next cycle.
C30_CycleErrorIsCaught ==
    (lastCycle.kind = "done" /\ lastCycle.threw) =>
        /\ isRunning
        /\ intervalId
        /\ timers > 0
        /\ (cycleCount < MaxCycles /\ \E c \in Cycles : thr[c].pc = "idle")
              => ENABLED Tick

\* the first cycle, awaited by start(), threw in its risk check and the
\* timer is there to start the next one
C30_Witness ==
    /\ lastCycle.kind = "done" /\ lastCycle.threw
    /\ cycleCount = 1
    /\ timers = 1
    /\ ENABLED Tick


\* C31: a fetch that fails (the request rejects or the response is not OK)
\* leaves the window and the last price of every token as they were, and a
\* well-formed response changes exactly the tokens it prices: each of them
\* gets the price as last price and as newest entry of its window, the
\* others keep both.
C31_WellFormed(r) == \A tk \in Tokens : r.data[tk] # BadPrice
C31_Stored(tk, r) ==
    /\ lastPrices'[tk] = r.data[tk]
    /\ priceHistories'[tk].prices # <<>>
    /\ priceHistories'[tk].prices[Len(priceHistories'[tk].prices)] = r.data[tk]
    /\ priceHistories'[tk].timestamps[Len(priceHistories'[tk].prices)] = now
C31_Kept(tk) ==
    /\ lastPrices'[tk] = lastPrices[tk]
    /\ priceHistories'[tk] = priceHistories[tk]
C31_FailedFetchChangesNothing ==
    [][(feed # <<>> /\ feed' = Tail(feed)) =>
          LET r == Head(feed) IN
          /\ r.kind # "ok" => \A tk \in Tokens : C31_Kept(tk)
          /\ (r.kind = "ok" /\ C31_WellFormed(r)) =>
                \A tk \in Tokens :
                    IF r.data[tk] = NoPrice THEN C31_Kept(tk)
                    ELSE C31_Stored(tk, r)]_vars

\* the second fetch got a response that is not OK and left the price the
\* first one had stored for SOL alone; the first response priced no JUP
C31_Witness ==
    /\ lastSignal.kind = "fetch"
    /\ lastSignal.response.kind = "notOk"
    /\ now = StartTime + 2 * IntervalMs
    /\ lastPrices["SOL"] = 100
    /\ Len(priceHistories["SOL"].prices) = 1
    /\ lastPrices["JUP"] = NoPrice
    /\ priceHistories["JUP"].prices = <<>>


\* C32: checkRisk returns a status and raises nothing, whatever limits
\* validateConfig accepts (initialCapital = 0 among them) and whatever
\* trades were recorded.
C32_CheckRiskAlwaysReturns ==
    lastStatus.kind # "none" => lastStatus.kind = "status"


C33_Called(names) ==
    /\ lastSignal.kind = "indicator"
    /\ lastSignal.name \in names
C33_Window == priceHistories[lastSignal.token].prices
C33_Required ==
    IF lastSignal.name = "RSI" THEN lastSignal.period + 1 ELSE lastSignal.period

\* C33: SMA, EMA, RSI and volatility return null exactly when the window
\* holds fewer prices than they need (the period, one more for RSI), and a
\* number whenever it holds enough.
C33_NullExactlyWhenTooShort ==
    C33_Called({"SMA", "EMA", "RSI", "volatility"}) =>
        IF Len(C33_Window) < C33_Required
        THEN lastSignal.result.kind = "null"
        ELSE lastSignal.result.kind = "value"

\* C34: an indicator whose quotient has a zero divisor returns null:
\* momentum when the price `period` steps back is zero, volatility when the
\* mean of the window is zero.
C34_ZeroDivisor ==
    /\ C33_Called({"momentum", "volatility"})
    /\ Len(C33_Window) >= lastSignal.period + 1
    /\ IF lastSignal.name = "momentum"
       THEN C33_Window[Len(C33_Window) - lastSignal.period] = 0
       ELSE SeqSum(LastN(C33_Window, lastSignal.period)) = 0
C34_ZeroDivisorGivesNull ==
    C34_ZeroDivisor => lastSignal.result.kind = "null"

\* C35: stochastic %K returns a value whenever the window holds at least
\* `period` prices, and null only when it holds fewer.
C35_StochasticFromPeriodOn ==
    C33_Called({"stochastic"}) =>
        (lastSignal.result.kind = "null" <=> Len(C33_Window) < lastSignal.period)


\* C36: whatever the window, the vote the Bollinger bands add to the BUY
\* side or to the SELL side of analyzeMarket weighs at most 0.2.
C36_BollingerVoteAtMostFifth ==
    (lastSignal.kind = "live"
        /\ Len(priceHistories[lastSignal.token].prices) >= 20) =>
        /\ BollingerBuy(priceHistories[lastSignal.token].prices) <= Unit \div 5
        /\ BollingerSell(priceHistories[lastSignal.token].prices) <= Unit \div 5


\* the largest decline from the running peak over the values caps[i..],
\* in 1/100 of a percent of the peak
RECURSIVE C37_Decline(_, _, _, _)
C37_Decline(caps, i, peak, worst) ==
    IF i > Len(caps) THEN worst
    ELSE LET top == IF caps[i] > peak THEN caps[i] ELSE peak
             down == IF top = 0 THEN 0 ELSE ((top - caps[i]) * 10000) \div top
         IN C37_Decline(caps, i + 1, top, IF down > worst THEN down ELSE worst)

\* C37: the maximum drawdown a backtest reports is the largest decline of
\* the simulated capital from its running peak, in percent of the peak,
\* over all changes of the capital: the fee of each entry, each take-profit
\* or stop-loss close, and the close forced at the end of the series.
C37_DrawdownCoversEveryChange ==
    (btResult # NoBacktest /\ btResult.out.kind = "result") =>
        btResult.out.maxDrawdown = C37_Decline(btResult.out.capitals, 1, 0, 0)


\* C38: a position is closed at most once, however a management pass and
\* an emergency close interleave: it is sold once, it is in the closed
\* history once and it counts once in totalTrades.
C38_ClosedAtMostOnce ==
    /\ \A i, j \in 1..Len(closedPositions) :
          closedPositions[i] = closedPositions[j] => i = j
    /\ stats.totalTrades = Cardinality({closedPositions[i] :
                                           i \in 1..Len(closedPositions)})


\* C39: once SolanaBot.init has applied a configuration validateConfig
\* accepts, the amount executeSignal asks openLongPosition to spend is never
\* more than the available capital it was called with.
C39_SizeWithinAvailable ==
    \A c \in Cycles :
        (config.set /\ thr[c].pc \in {"openQuote", "openSwap"}) =>
            thr[c].amount <= thr[c].avail


\* C40: no position is opened while the pause flag is set: a cycle that
\* passed its risk check before pause() or an emergency stop set the flag
\* opens nothing afterwards.
C40_NoOpenWhilePaused ==
    (lastOp.kind = "open" /\ lastOp.returned # 0) => ~isPaused

====
